---------------------------- MODULE Spec2Model ----------------------------
(***************************************************************************)
(* Urdu children's story generation system: BPE tokenizer (training,      *)
(* encode, decode, save/load), n-gram counting, the sparse interpolated    *)
(* trigram sampler and the lazily loaded backend that serves generation.   *)
(*                                                                         *)
(* Representation.                                                         *)
(*   - A Python str is a sequence of one-character strings, so "ab" is     *)
(*     <<"a","b">> and the marker "</w>" is <<"<","/","w",">">>.  Slicing, *)
(*     concatenation, split(), strip() and replace() are then computed on  *)
(*     characters, as Python computes them.                                *)
(*   - A Python dict is the sequence of its <<key, value>> items in        *)
(*     insertion order (keys unique), which is the order Python iterates.  *)
(*   - A token id is tagged with its Python type: <<"int", n>> is the int  *)
(*     n and <<"str", n>> is the str holding the decimal spelling of n (a  *)
(*     JSON object key).  The two never compare equal, as in Python.       *)
(*   - The Urdu full stop U+06D4 is written ".", Latin letters stand for   *)
(*     Urdu letters (both sort after "<", as Urdu letters do).             *)
(*   - Probabilities are exact rationals <<numerator, denominator>>;       *)
(*     floating-point rounding is not modelled.                            *)
(***************************************************************************)
EXTENDS Integers, Sequences, FiniteSets, TLC

VARIABLES
    \* ---- tokenizer training and codec (Tokenizer/bpe_tokenizer.py, train_bpe.py)
    variant,         \* which BPETokenizer class: "bpe_tokenizer" or "train_bpe"
    corpus,          \* the training corpus (a str)
    budget,          \* vocab_size (bpe_tokenizer) or max_merges (train_bpe)
    tok,             \* the tokenizer object being trained / used
    train,           \* the frame of the running train() call
    prev,            \* the artifacts of the previous training run, if any
    codec,           \* the last encode / decode performed on tok, if any
    \* ---- n-gram artifacts and the generator module (Trigram_LM, Backend)
    stream,          \* the encoded corpus handed to ngram_counter
    pickles,         \* Trigram_LM/artifacts: the three pickled count tables
    model,           \* generator._model
    loaded,          \* generator._loaded
    query,           \* the last _next_token_probs(w1, w2) call, if any
    \* ---- the backend process (Backend/*.py) and the artifacts it loads
    files,           \* Tokenizer/artifacts: final_token.json, ordered_merges.txt
    tokenizer_instance,  \* tokenizer_utils._tokenizer_instance (an object or None)
    heap,            \* the BPETokenizer objects created by the process
    bpe,             \* Backend/bpe_tokenizer.py: _merges and _loaded
    call             \* the frame of each thread's call into the backend

tokVars == <<variant, corpus, budget, tok, train, prev, codec>>

lmVars == <<stream, pickles, model, loaded, query>>

backendVars == <<files, tokenizer_instance, heap, bpe, call>>

vars == <<variant, corpus, budget, tok, train, prev, codec,
          stream, pickles, model, loaded, query,
          files, tokenizer_instance, heap, bpe, call>>

(***************************************************************************)
(* Bounds of the model.                                                    *)
(***************************************************************************)
MaxCorpusWords == 2      \* words in a training corpus
MaxMerges == 3           \* largest operation budget explored
MaxTextWords == 2        \* words in a text handed to encode
MaxStream == 4           \* tokens in the encoded corpus that is counted
MaxLength == 2           \* largest max_length handed to a generation call
MaxDecode == 2           \* ids in a sequence handed to decode
MaxVocabSize == 15       \* largest vocab_size handed to bpe_tokenizer.py

(***************************************************************************)
(* Python str helpers.                                                     *)
(***************************************************************************)
Whitespace == {" ", "\n"}

FULLSTOP == "."

\* code points, for the order of sorted(): "/" < "<" < ">" < capitals < letters
CharCode(c) ==
    CASE c = " " -> 32 [] c = "\n" -> 10 [] c = "." -> 1748 [] c = "/" -> 47
      [] c = "<" -> 60 [] c = ">" -> 62 [] c = "E" -> 69 [] c = "O" -> 79
      [] c = "P" -> 80 [] c = "S" -> 83 [] c = "T" -> 84 [] c = "a" -> 1575
      [] c = "b" -> 1576 [] c = "c" -> 1577 [] c = "k" -> 107 [] c = "n" -> 110
      [] c = "u" -> 117 [] c = "w" -> 119

RECURSIVE StrLess(_, _)
\* s < t for two str: lexicographic by code point
StrLess(s, t) ==
    IF t = <<>> THEN FALSE
    ELSE IF s = <<>> THEN TRUE
    ELSE IF Head(s) = Head(t) THEN StrLess(Tail(s), Tail(t))
    ELSE CharCode(Head(s)) < CharCode(Head(t))

RECURSIVE Join(_)
\* "".join(parts)
Join(parts) == IF parts = <<>> THEN <<>> ELSE Head(parts) \o Join(Tail(parts))

RECURSIVE SplitFrom(_, _, _)
SplitFrom(text, cur, acc) ==
    IF text = <<>> THEN (IF cur = <<>> THEN acc ELSE Append(acc, cur))
    ELSE IF Head(text) \in Whitespace
         THEN SplitFrom(Tail(text), <<>>, IF cur = <<>> THEN acc ELSE Append(acc, cur))
         ELSE SplitFrom(Tail(text), Append(cur, Head(text)), acc)

\* text.split(): the maximal runs of non-whitespace characters
Split(text) == SplitFrom(text, <<>>, <<>>)

RECURSIVE LStrip(_)
LStrip(s) == IF s # <<>> /\ Head(s) \in Whitespace THEN LStrip(Tail(s)) ELSE s

RECURSIVE RStrip(_)
RStrip(s) ==
    IF s # <<>> /\ s[Len(s)] \in Whitespace THEN RStrip(SubSeq(s, 1, Len(s) - 1)) ELSE s

\* s.strip()
Strip(s) == LStrip(RStrip(s))

\* s.startswith(p), s.endswith(p)
StartsWith(s, p) == Len(p) <= Len(s) /\ SubSeq(s, 1, Len(p)) = p
EndsWith(s, p) == Len(p) <= Len(s) /\ SubSeq(s, Len(s) - Len(p) + 1, Len(s)) = p

RECURSIVE Replace(_, _, _)
\* s.replace(old, new) for a non-empty old: leftmost non-overlapping occurrences
Replace(s, old, new) ==
    IF s = <<>> THEN <<>>
    ELSE IF StartsWith(s, old) THEN new \o Replace(SubSeq(s, Len(old) + 1, Len(s)), old, new)
    ELSE <<Head(s)>> \o Replace(Tail(s), old, new)

\* " ".join(parts)
RECURSIVE JoinWith(_, _)
JoinWith(sep, parts) ==
    IF parts = <<>> THEN <<>>
    ELSE IF Len(parts) = 1 THEN parts[1]
    ELSE parts[1] \o sep \o JoinWith(sep, Tail(parts))

(***************************************************************************)
(* Python dict helpers: a dict is its item sequence in insertion order.    *)
(***************************************************************************)
DictHas(d, k) == \E i \in DOMAIN d : d[i][1] = k

DictIndex(d, k) == CHOOSE i \in DOMAIN d : d[i][1] = k

\* d.get(k, default)
DictGet(d, k, default) == IF DictHas(d, k) THEN d[DictIndex(d, k)][2] ELSE default

\* d[k] = v: an existing key keeps its position
DictSet(d, k, v) ==
    IF DictHas(d, k) THEN [d EXCEPT ![DictIndex(d, k)] = <<k, v>>] ELSE Append(d, <<k, v>>)

DictKeys(d) == [i \in DOMAIN d |-> d[i][1]]

DictValues(d) == [i \in DOMAIN d |-> d[i][2]]

\* the set of the elements of a sequence
Range(s) == {s[i] : i \in DOMAIN s}

\* all sequences over S of length lo..hi
SeqsOf(S, lo, hi) == UNION {[1..n -> S] : n \in lo..hi}

\* every listing of a finite set without repetition: the orders in which a
\* Python set (hash order, randomised per process for str) may be iterated
RECURSIVE Orderings(_)
Orderings(S) ==
    IF S = {} THEN {<<>>}
    ELSE UNION {{<<x>> \o rest : rest \in Orderings(S \ {x})} : x \in S}

(***************************************************************************)
(* Token ids.                                                              *)
(***************************************************************************)
IntId(n) == <<"int", n>>

StrId(n) == <<"str", n>>

\* json.dump writes every object key as a str; json.load returns it as a str
JsonKey(k) == <<"str", k[2]>>

\* int(k) of a decimal str, or of an int
ParseInt(k) == <<"int", k[2]>>

(***************************************************************************)
(* BPETokenizer: class constants.                                          *)
(***************************************************************************)
WORD_END == <<"<", "/", "w", ">">>

EOS == <<"<", "E", "O", "S", ">">>

EOP == <<"<", "E", "O", "P", ">">>

EOT == <<"<", "E", "O", "T", ">">>

UNK == <<"<", "u", "n", "k", ">">>

SPECIAL_TOKENS == << <<EOS, IntId(0)>>, <<EOP, IntId(1)>>, <<EOT, IntId(2)>>, <<UNK, IntId(3)>> >>

UNK_ID_sentence_end == IntId(0)

UNK_ID == DictGet(SPECIAL_TOKENS, UNK, IntId(3))

\* BPETokenizer(): empty vocabulary, reverse map and merge list
NewTokenizer == [vocab |-> <<>>, token_to_id |-> <<>>, merges |-> <<>>]


(***************************************************************************)
(* BPETokenizer training helpers.                                          *)
(***************************************************************************)
\* tuple(word): the characters of a word, each a one-character str
Chars(word) == [i \in DOMAIN word |-> <<word[i]>>]

\* the symbol tuple of one word: a control spelling stays one atomic symbol,
\* any other word becomes its characters plus the end-of-word marker
WordSymbols(word) ==
    IF DictHas(SPECIAL_TOKENS, word) THEN <<word>> ELSE Chars(word) \o <<WORD_END>>

RECURSIVE CountWords(_, _)
CountWords(words, wf) ==
    IF words = <<>> THEN wf
    ELSE CountWords(Tail(words),
                    DictSet(wf, WordSymbols(Head(words)),
                            DictGet(wf, WordSymbols(Head(words)), 0) + 1))

\* _pretokenize: word tuple -> frequency, in order of first occurrence
pretokenize(text) == CountWords(Split(text), <<>>)

\* the set unique_chars of _initialize_vocab: every symbol of every word but
\* the marker; train_bpe.py then adds the marker itself
unique_chars(v, word_frequencies) ==
    LET seen == UNION {Range(word_frequencies[i][1]) : i \in DOMAIN word_frequencies}
    IN  IF v = "train_bpe" THEN (seen \ {WORD_END}) \cup {WORD_END} ELSE seen \ {WORD_END}

sorted_unsorted(chars) == chars

\* sorted(unique_chars), given the order in which the set is iterated
sorted(chars) == SortSeq(chars, StrLess)

RECURSIVE AddTokens(_, _)
\* add each token that is not yet in token_to_id under the next free id
AddTokens(t, tokens) ==
    IF tokens = <<>> THEN t
    ELSE IF DictHas(t.token_to_id, Head(tokens)) THEN AddTokens(t, Tail(tokens))
    ELSE AddTokens([t EXCEPT !.vocab = DictSet(@, IntId(Len(t.vocab)), Head(tokens)),
                             !.token_to_id = DictSet(@, Head(tokens), IntId(Len(t.vocab)))],
                   Tail(tokens))

RECURSIVE AddSpecials(_, _)
AddSpecials(t, items) ==
    IF items = <<>> THEN t
    ELSE AddSpecials([t EXCEPT !.vocab = DictSet(@, Head(items)[2], Head(items)[1]),
                               !.token_to_id = DictSet(@, Head(items)[1], Head(items)[2])],
                     Tail(items))

\* _initialize_vocab: the control tokens under their reserved ids, then the
\* observed characters in sorted order; iteration is the set's iteration order
initialize_vocab(t, iteration) == AddTokens(AddSpecials(t, SPECIAL_TOKENS), sorted(iteration))

RECURSIVE CountPairsWord(_, _, _, _)
CountPairsWord(word, freq, i, pf) ==
    IF i > Len(word) - 1 THEN pf
    ELSE CountPairsWord(word, freq, i + 1,
                        DictSet(pf, <<word[i], word[i + 1]>>,
                                DictGet(pf, <<word[i], word[i + 1]>>, 0) + freq))

RECURSIVE CountPairsFrom(_, _)
CountPairsFrom(wf, pf) ==
    IF wf = <<>> THEN pf
    ELSE CountPairsFrom(Tail(wf), CountPairsWord(Head(wf)[1], Head(wf)[2], 1, pf))

\* _count_pairs: adjacent pair -> summed word frequency, in discovery order
count_pairs(word_frequencies) == CountPairsFrom(word_frequencies, <<>>)

best_pair_of_last_discovered(pair_frequencies) ==
    LET best == CHOOSE i \in DOMAIN pair_frequencies :
                    /\ \A j \in DOMAIN pair_frequencies :
                           pair_frequencies[j][2] <= pair_frequencies[i][2]
                    /\ \A j \in (i + 1)..Len(pair_frequencies) :
                           pair_frequencies[j][2] < pair_frequencies[i][2]
    IN  pair_frequencies[best][1]

\* max(pair_frequencies, key=...): the first key, in iteration order, whose
\* frequency no other key exceeds
best_pair_of(pair_frequencies) ==
    LET best == CHOOSE i \in DOMAIN pair_frequencies :
                    /\ \A j \in DOMAIN pair_frequencies :
                           pair_frequencies[j][2] <= pair_frequencies[i][2]
                    /\ \A j \in 1..(i - 1) : pair_frequencies[j][2] < pair_frequencies[i][2]
    IN  pair_frequencies[best][1]

RECURSIVE MergeWordFrom(_, _, _, _)
MergeWordFrom(word, pair, i, result) ==
    IF i > Len(word) THEN result
    ELSE IF i < Len(word) /\ word[i] = pair[1] /\ word[i + 1] = pair[2]
         THEN MergeWordFrom(word, pair, i + 2, Append(result, pair[1] \o pair[2]))
         ELSE MergeWordFrom(word, pair, i + 1, Append(result, word[i]))

RECURSIVE MergeWordNoSkipFrom(_, _, _, _)
MergeWordNoSkipFrom(word, pair, i, result) ==
    IF i > Len(word) THEN result
    ELSE IF i < Len(word) /\ word[i] = pair[1] /\ word[i + 1] = pair[2]
         THEN MergeWordNoSkipFrom(word, pair, i + 1, Append(result, pair[1] \o pair[2]))
         ELSE MergeWordNoSkipFrom(word, pair, i + 1, Append(result, word[i]))

merge_word_no_skip(word, pair) == MergeWordNoSkipFrom(word, pair, 1, <<>>)

\* _merge_word: a new tuple with every non-overlapping occurrence of the pair,
\* left to right, replaced by the concatenation
merge_word(word, pair) == MergeWordFrom(word, pair, 1, <<>>)

RECURSIVE MergePairFrom(_, _, _)
MergePairFrom(wf, pair, new_wf) ==
    IF wf = <<>> THEN new_wf
    ELSE MergePairFrom(Tail(wf), pair, DictSet(new_wf, merge_word(Head(wf)[1], pair), Head(wf)[2]))

\* _merge_pair: the word-frequency table rebuilt with the pair merged
merge_pair(word_frequencies, pair) == MergePairFrom(word_frequencies, pair, <<>>)

num_merges_one_more(v, b, t) ==
    IF v = "train_bpe" THEN b + 1
    ELSE (IF b - Len(t.vocab) >= 0 THEN b - Len(t.vocab) + 1 ELSE 0)

\* the number of loop iterations train() allows: range(vocab_size - len(vocab))
\* in bpe_tokenizer.py, range(max_merges) in train_bpe.py
num_merges(v, b, t) ==
    IF v = "train_bpe" THEN b ELSE (IF b - Len(t.vocab) > 0 THEN b - Len(t.vocab) ELSE 0)

\* the body of one iteration of the merge loop of train(): pick the most
\* frequent pair, record it, merge it in every word, add the new token
merge_step(t, word_frequencies) ==
    LET best_pair == best_pair_of(count_pairs(word_frequencies))
        new_token == best_pair[1] \o best_pair[2]
        new_id == IntId(Len(t.vocab))
    IN  [tok |-> [t EXCEPT !.merges = Append(@, best_pair),
                           !.vocab = DictSet(@, new_id, new_token),
                           !.token_to_id = DictSet(@, new_token, new_id)],
         word_frequencies |-> merge_pair(word_frequencies, best_pair)]

RECURSIVE merge_loop(_, _, _, _)
\* for i in range(num_merges): ... break when no pair is left
merge_loop(t, word_frequencies, i, n) ==
    IF i >= n \/ count_pairs(word_frequencies) = <<>> THEN t
    ELSE merge_loop(merge_step(t, word_frequencies).tok,
                    merge_step(t, word_frequencies).word_frequencies, i + 1, n)

\* BPETokenizer.train(corpus) on a fresh tokenizer, as one function
trained(v, text, b) ==
    LET wf == pretokenize(text)
        t == initialize_vocab(NewTokenizer,
                              CHOOSE o \in Orderings(unique_chars(v, wf)) : TRUE)
    IN  merge_loop(t, wf, 0, num_merges(v, b, t))

(***************************************************************************)
(* BPETokenizer.encode / decode.                                           *)
(***************************************************************************)
RECURSIVE ApplyMergeWord(_, _, _)
\* the while loop of _apply_merge on one token list, edited in place
ApplyMergeWord(tokens, pair, i) ==
    IF ~(i < Len(tokens)) THEN tokens
    ELSE IF tokens[i] = pair[1] /\ tokens[i + 1] = pair[2]
         THEN ApplyMergeWord(SubSeq(tokens, 1, i - 1) \o <<pair[1] \o pair[2]>>
                             \o SubSeq(tokens, i + 2, Len(tokens)), pair, i)
         ELSE ApplyMergeWord(tokens, pair, i + 1)

apply_merge_swapped(tokens_list, pair) ==
    [w \in DOMAIN tokens_list |-> ApplyMergeWord(tokens_list[w], <<pair[2], pair[1]>>, 1)]

\* _apply_merge: one merge rule applied to every word's token list
apply_merge(tokens_list, pair) ==
    [w \in DOMAIN tokens_list |-> ApplyMergeWord(tokens_list[w], pair, 1)]

RECURSIVE ApplyMerges(_, _)
ApplyMerges(tokens_list, merges) ==
    IF merges = <<>> THEN tokens_list
    ELSE ApplyMerges(apply_merge(tokens_list, Head(merges)), Tail(merges))

\* pair p is before pair q in the order of their spellings
PairLess(p, q) == StrLess(p[1] \o p[2], q[1] \o q[2])

encode_symbols_any_order(t, text) ==
    ApplyMerges([w \in DOMAIN Split(text) |-> WordSymbols(Split(text)[w])],
                SortSeq(t.merges, PairLess))

\* the symbols encode() ends with, word by word, before the id lookup
encode_symbols(t, text) ==
    ApplyMerges([w \in DOMAIN Split(text) |-> WordSymbols(Split(text)[w])], t.merges)

tokenizer_encode_last_word_only(t, text) ==
    LET symbols == encode_symbols(t, text)
        flat == IF symbols = <<>> THEN <<>> ELSE symbols[Len(symbols)]
    IN  [i \in DOMAIN flat |-> DictGet(t.token_to_id, flat[i], UNK_ID)]

\* BPETokenizer.encode: split on whitespace, expand, merge in table order,
\* look every symbol up (unknown symbols become the id of "<unk>")
tokenizer_encode(t, text) ==
    LET flat == Join(encode_symbols(t, text))
    IN  [i \in DOMAIN flat |-> DictGet(t.token_to_id, flat[i], UNK_ID)]

RECURSIVE FixSpecials(_, _)
\* for special in SPECIAL_TOKENS: drop one space before and after it
FixSpecials(text, specials) ==
    IF specials = <<>> THEN text
    ELSE FixSpecials(Replace(Replace(text, <<" ">> \o Head(specials), Head(specials)),
                             Head(specials) \o <<" ">>, Head(specials)),
                     Tail(specials))

\* BPETokenizer.decode: ids to token strings, a token that is exactly the
\* marker becomes a space, everything else is kept as it is spelled
tokenizer_decode(t, token_ids) ==
    LET tokens == [i \in DOMAIN token_ids |-> DictGet(t.vocab, token_ids[i], UNK)]
        parts == [i \in DOMAIN tokens |-> IF tokens[i] = WORD_END THEN <<" ">> ELSE tokens[i]]
    IN  Strip(FixSpecials(Join(parts), DictKeys(SPECIAL_TOKENS)))

(***************************************************************************)
(* BPETokenizer.save / load: the vocabulary as a JSON object, the merge    *)
(* table as text lines.                                                    *)
(***************************************************************************)
NoFiles == [exists |-> FALSE, vocab_json |-> <<>>, merges_txt |-> <<>>]

\* save(): json.dump(self.vocab) and one line "token_a token_b\n" per merge
tokenizer_save(t) ==
    [exists |-> TRUE,
     vocab_json |-> [i \in DOMAIN t.vocab |-> <<JsonKey(t.vocab[i][1]), t.vocab[i][2]>>],
     merges_txt |-> [i \in DOMAIN t.merges |->
                        t.merges[i][1] \o <<" ">> \o t.merges[i][2] \o <<"\n">>]]

\* load(), the vocabulary: bpe_tokenizer.py keeps the keys json.load returns,
\* train_bpe.py converts every key with int()
load_vocab(v, vocab_json) ==
    IF v = "train_bpe"
    THEN [i \in DOMAIN vocab_json |-> <<ParseInt(vocab_json[i][1]), vocab_json[i][2]>>]
    ELSE vocab_json

RECURSIVE ReverseDict(_, _)
\* {v: k for k, v in vocab.items()}
ReverseDict(d, acc) ==
    IF d = <<>> THEN acc ELSE ReverseDict(Tail(d), DictSet(acc, Head(d)[2], Head(d)[1]))

reverse_vocab(vocab) == ReverseDict(vocab, <<>>)

\* load(), one line of the merges file: kept when it splits into two parts
load_merge_line(merges, line) ==
    IF Len(Split(Strip(line))) = 2
    THEN Append(merges, <<Split(Strip(line))[1], Split(Strip(line))[2]>>)
    ELSE merges

RECURSIVE LoadMergeLines(_, _)
LoadMergeLines(merges, lines) ==
    IF lines = <<>> THEN merges
    ELSE LoadMergeLines(load_merge_line(merges, Head(lines)), Tail(lines))

\* BPETokenizer.load(vocab_path, merges_path), as one function
tokenizer_load(v, f) ==
    [vocab |-> load_vocab(v, f.vocab_json),
     token_to_id |-> reverse_vocab(load_vocab(v, f.vocab_json)),
     merges |-> LoadMergeLines(<<>>, f.merges_txt)]

(***************************************************************************)
(* Exact rationals <<numerator, denominator>>, in lowest terms.            *)
(***************************************************************************)
RECURSIVE GCD(_, _)
GCD(a, b) == IF b = 0 THEN a ELSE GCD(b, a % b)

Rat(n, d) == IF n = 0 THEN <<0, 1>> ELSE <<n \div GCD(n, d), d \div GCD(n, d)>>

RatAdd(x, y) == Rat(x[1] * y[2] + y[1] * x[2], x[2] * y[2])

RatMul(x, y) == Rat(x[1] * y[1], x[2] * y[2])

RatZero == Rat(0, 1)

RECURSIVE RatSum(_)
\* sum(probs)
RatSum(xs) == IF xs = <<>> THEN RatZero ELSE RatAdd(Head(xs), RatSum(Tail(xs)))

(***************************************************************************)
(* ngram_counter.py: the three count tables (collections.Counter, keys in  *)
(* order of first occurrence).                                             *)
(***************************************************************************)
RECURSIVE Counter(_, _)
Counter(items, acc) ==
    IF items = <<>> THEN acc
    ELSE Counter(Tail(items), DictSet(acc, Head(items), DictGet(acc, Head(items), 0) + 1))

get_unigram_counts(tokens) == Counter(tokens, <<>>)

get_bigram_counts_drop_last(tokens) ==
    Counter([i \in 1..(IF Len(tokens) > 2 THEN Len(tokens) - 2 ELSE 0) |->
                 <<tokens[i], tokens[i + 1]>>], <<>>)

get_bigram_counts(tokens) ==
    Counter([i \in 1..(IF Len(tokens) > 1 THEN Len(tokens) - 1 ELSE 0) |->
                 <<tokens[i], tokens[i + 1]>>], <<>>)

get_trigram_counts(tokens) ==
    Counter([i \in 1..(IF Len(tokens) > 2 THEN Len(tokens) - 2 ELSE 0) |->
                 <<tokens[i], tokens[i + 1], tokens[i + 2]>>], <<>>)

\* save_all_counts: the three tables, pickled (pickle keeps keys and counts)
save_all_counts(tokens) ==
    [exists |-> TRUE, uni |-> get_unigram_counts(tokens),
     bi |-> get_bigram_counts(tokens), tri |-> get_trigram_counts(tokens)]

NoPickles == [exists |-> FALSE, uni |-> <<>>, bi |-> <<>>, tri |-> <<>>]

(***************************************************************************)
(* model_loader.py.                                                        *)
(***************************************************************************)
RECURSIVE SumValues(_)
SumValues(d) == IF d = <<>> THEN 0 ELSE Head(d)[2] + SumValues(Tail(d))

\* load_ngram_counts: (uni, bi, tri, total_token_count) of existing pickles
load_ngram_counts(p) == [uni |-> p.uni, bi |-> p.bi, tri |-> p.tri, total |-> SumValues(p.uni)]

\* (0.8, 0.15, 0.05)
DefaultLambdas == <<Rat(80, 100), Rat(15, 100), Rat(5, 100)>>

RECURSIVE NextIndex(_, _)
\* the defaultdict(dict) loops of build_indexes: context -> {successor: count};
\* the context is every component of the key but the last
NextIndex(counts, acc) ==
    IF counts = <<>> THEN acc
    ELSE LET key == Head(counts)[1]
             ctx == IF Len(key) = 2 THEN key[1] ELSE <<key[1], key[2]>>
             succ == key[Len(key)]
         IN  NextIndex(Tail(counts),
                       DictSet(acc, ctx, DictSet(DictGet(acc, ctx, <<>>), succ, Head(counts)[2])))

NoneModel ==
    [none |-> TRUE, vocab |-> <<>>, vocab_index |-> <<>>, base_probs |-> <<>>,
     bigram_next |-> <<>>, trigram_next |-> <<>>, uni_counts |-> <<>>, bi_counts |-> <<>>,
     lambdas |-> DefaultLambdas]

\* build_indexes(uni_counts, bi_counts, tri_counts, total_token_count)
build_indexes(c) ==
    LET vocab == DictKeys(c.uni)
    IN  [none |-> FALSE,
         vocab |-> vocab,
         vocab_index |-> [i \in DOMAIN vocab |-> <<vocab[i], i - 1>>],
         base_probs |-> [i \in DOMAIN vocab |->
                             RatMul(DefaultLambdas[3], Rat(DictGet(c.uni, vocab[i], 0), c.total))],
         bigram_next |-> NextIndex(c.bi, <<>>),
         trigram_next |-> NextIndex(c.tri, <<>>),
         uni_counts |-> c.uni,
         bi_counts |-> c.bi,
         lambdas |-> DefaultLambdas]

(***************************************************************************)
(* generator.py: _next_token_probs.                                        *)
(***************************************************************************)
RECURSIVE SparseUpdate(_, _, _, _, _)
\* for w3, c in successors.items(): probs[vocab_index[w3]] += weight * (c / ctx_count)
SparseUpdate(m, probs, successors, weight, ctx_count) ==
    IF successors = <<>> THEN probs
    ELSE LET w3 == Head(successors)[1]
             c == Head(successors)[2]
         IN  SparseUpdate(m,
                 IF DictHas(m.vocab_index, w3)
                 THEN [probs EXCEPT ![DictGet(m.vocab_index, w3, 0) + 1] =
                                        RatAdd(@, RatMul(weight, Rat(c, ctx_count)))]
                 ELSE probs,
                 Tail(successors), weight, ctx_count)

SparseProbs_without_base(m, bi_ctx, tri_ctx) ==
    LET base == [i \in DOMAIN m.base_probs |-> RatZero]
        c1_ctx == DictGet(m.uni_counts, bi_ctx, 0)
        with_bi == IF DictHas(m.bigram_next, bi_ctx) /\ c1_ctx > 0
                   THEN SparseUpdate(m, base, DictGet(m.bigram_next, bi_ctx, <<>>),
                                     m.lambdas[2], c1_ctx)
                   ELSE base
        c2_ctx == DictGet(m.bi_counts, tri_ctx, 0)
    IN  IF DictHas(m.trigram_next, tri_ctx) /\ c2_ctx > 0
        THEN SparseUpdate(m, with_bi, DictGet(m.trigram_next, tri_ctx, <<>>),
                          m.lambdas[1], c2_ctx)
        ELSE with_bi

\* the body of _next_token_probs, for a bigram context and a trigram context
SparseProbs(m, bi_ctx, tri_ctx) ==
    LET base == m.base_probs
        c1_ctx == DictGet(m.uni_counts, bi_ctx, 0)
        with_bi == IF DictHas(m.bigram_next, bi_ctx) /\ c1_ctx > 0
                   THEN SparseUpdate(m, base, DictGet(m.bigram_next, bi_ctx, <<>>),
                                     m.lambdas[2], c1_ctx)
                   ELSE base
        c2_ctx == DictGet(m.bi_counts, tri_ctx, 0)
    IN  IF DictHas(m.trigram_next, tri_ctx) /\ c2_ctx > 0
        THEN SparseUpdate(m, with_bi, DictGet(m.trigram_next, tri_ctx, <<>>),
                          m.lambdas[1], c2_ctx)
        ELSE with_bi

next_token_probs_wrong_context(m, w1, w2) == SparseProbs(m, w1, <<w1, w2>>)

\* _next_token_probs(w1, w2): a copy of base_probs plus the sparse bigram
\* update for w2 and the sparse trigram update for (w1, w2)
next_token_probs(m, w1, w2) == SparseProbs(m, w2, <<w1, w2>>)

(***************************************************************************)
(* trigram_model.py: get_interpolated_prob, straight from the raw counts   *)
(* (module-level tables loaded from the same pickles).                     *)
(***************************************************************************)
get_interpolated_prob(p, w1, w2, w3) ==
    LET c3 == DictGet(p.tri, <<w1, w2, w3>>, 0)
        c2_context == DictGet(p.bi, <<w1, w2>>, 0)
        p_tri == IF c2_context > 0 THEN Rat(c3, c2_context) ELSE RatZero
        c2 == DictGet(p.bi, <<w2, w3>>, 0)
        c1_context == DictGet(p.uni, w2, 0)
        p_bi == IF c1_context > 0 THEN Rat(c2, c1_context) ELSE RatZero
        c1 == DictGet(p.uni, w3, 0)
        total_token_count == SumValues(p.uni)
        p_uni == IF total_token_count > 0 THEN Rat(c1, total_token_count) ELSE RatZero
    IN  RatAdd(RatAdd(RatMul(DefaultLambdas[1], p_tri), RatMul(DefaultLambdas[2], p_bi)),
               RatMul(DefaultLambdas[3], p_uni))

(***************************************************************************)
(* tokenizer_utils.py and generator.py: the functions a generation call    *)
(* applies to the tokenizer object and to its own text.                    *)
(***************************************************************************)
\* decode_token(token_id), on the tokenizer get_tokenizer() returned
decode_token(t, token_id) ==
    LET token == DictGet(t.vocab, token_id, UNK)
    IN  IF token \in {EOT \o WORD_END, EOT} THEN <<>>
        ELSE IF token \in {EOS \o WORD_END, EOS} THEN <<FULLSTOP, " ">>
        ELSE IF token \in {EOP \o WORD_END, EOP} THEN <<"\n", "\n">>
        ELSE IF EndsWith(token, WORD_END)
             THEN SubSeq(token, 1, Len(token) - Len(WORD_END)) \o <<" ">>
        ELSE token

\* _get_eot_ids(): the keys of the tokenizer vocabulary spelled <EOT>
get_eot_ids(t) ==
    {t.vocab[i][1] : i \in {j \in DOMAIN t.vocab : t.vocab[j][2] \in {EOT, EOT \o WORD_END}}}

too_few_words_off_by_one(words) == Len(words) < 1

\* if len(words) < 2: raise ValueError
too_few_words(words) == Len(words) < 2

range_has_next_inclusive(i, n) == i <= n

\* for _ in range(max_length): another iteration is left
range_has_next(i, n) == i < n

\* decoded.strip() == "۔" and full_text.strip().endswith("۔")
duplicate_terminator(decoded, full_text) ==
    Strip(decoded) = <<FULLSTOP>> /\ EndsWith(Strip(full_text), <<FULLSTOP>>)

\* " ".join("".join(continuation_chunks).split())
cleaned(continuation_chunks) == JoinWith(<<" ">>, Split(Join(continuation_chunks)))

(***************************************************************************)
(* Backend/bpe_tokenizer.py: the string-token encoder.                     *)
(***************************************************************************)
\* the characters of the model's alphabet outside \w, \s, "<" and ">"
Punctuation == {FULLSTOP, "/"}

\* re.sub(r"[^\w\s<>]", " ", text)
strip_punctuation(text) == [i \in DOMAIN text |-> IF text[i] \in Punctuation THEN " " ELSE text[i]]

RECURSIVE SplitOnce(_, _)
\* line.split(" ", 1), with the part before the first space accumulated
SplitOnce(line, before) ==
    IF line = <<>> THEN <<before>>
    ELSE IF Head(line) = " " THEN <<before, Tail(line)>>
    ELSE SplitOnce(Tail(line), Append(before, Head(line)))

RECURSIVE LoadMerges(_, _)
\* _load_merges(path), the loop over the lines of an existing file
LoadMerges(lines, merges) ==
    IF lines = <<>> THEN merges
    ELSE LET line == IF Head(lines) # <<>> /\ Head(lines)[Len(Head(lines))] = "\n"
                     THEN SubSeq(Head(lines), 1, Len(Head(lines)) - 1) ELSE Head(lines)
             parts == SplitOnce(line, <<>>)
         IN  LoadMerges(Tail(lines),
                        IF line # <<>> /\ Len(parts) = 2
                        THEN Append(merges, <<parts[1], parts[2]>>) ELSE merges)

load_merges(f) == LoadMerges(f.merges_txt, <<>>)

RECURSIVE TokenizeWordFrom(_, _)
TokenizeWordFrom(tokens, merges) ==
    IF merges = <<>> THEN tokens
    ELSE TokenizeWordFrom(merge_word(tokens, Head(merges)), Tail(merges))

\* _tokenize_word(word, merges)
tokenize_word(word, merges) == TokenizeWordFrom(Chars(word) \o <<WORD_END>>, merges)

RECURSIVE BpeEncodeWords(_, _)
BpeEncodeWords(words, merges) ==
    IF words = <<>> THEN <<>>
    ELSE (IF StartsWith(Head(words), <<"<">>) /\ EndsWith(Head(words), <<">">>)
          THEN <<Head(words) \o WORD_END>>
          ELSE tokenize_word(Head(words), merges)) \o BpeEncodeWords(Tail(words), merges)

\* encode(text) of Backend/bpe_tokenizer.py, after _ensure_loaded()
bpe_encode(merges, text) == BpeEncodeWords(Split(strip_punctuation(text)), merges)

(***************************************************************************)
(* The objects and frames of the backend process.                          *)
(***************************************************************************)
Threads == {"t1", "t2"}

None == "None"

\* the corpus and budget train_bpe.py was run with to produce the artifacts
BackendCorpus == <<"a", "b", " ", "a">>

BackendTokenizer == trained("train_bpe", BackendCorpus, 2)

\* Tokenizer/artifacts as train_bpe.py main() leaves them
BackendFiles == tokenizer_save(BackendTokenizer)

\* the BPETokenizer the backend imports is the class of bpe_tokenizer.py
BackendClass == "bpe_tokenizer"

\* encoded corpora the generator is exercised on: no token at all, the
\* sentence end only, and words mixed with sentence and story ends.  The int
\* streams are what train_bpe.py main() writes to corpus_encoded.json; the str
\* streams are the same ids as encode() of the tokenizer the backend loads
\* returns them (ngram_counter counts whatever the file holds)
GenStreams ==
    {<<>>, <<IntId(0), IntId(0), IntId(0)>>, <<IntId(5), IntId(0), IntId(5), IntId(2)>>,
     <<IntId(5), IntId(5), IntId(2)>>,
     <<StrId(0), StrId(0), StrId(0)>>, <<StrId(8), StrId(0), StrId(0), StrId(2)>>}

Prefixes ==
    {<<>>, <<" ">>, <<"a">>, <<"a", " ", "a", "b">>, <<" ", "a", "b", " ", "a", "\n">>,
     <<"a", " ", "a", "b", FULLSTOP>>}

Kinds == {"generate_story", "generate_story_streaming", "encode", "decode"}

\* ids handed to tokenizer_utils.decode: ids as encode returns them from the
\* loaded tokenizer (control tokens, a letter, a merged token that ends with
\* the marker) and an int id as the model holds them
DecodeIds == {StrId(0), StrId(1), StrId(2), StrId(5), StrId(8), IntId(5)}

NoCounts == [uni |-> <<>>, bi |-> <<>>, tri |-> <<>>, total |-> 0]

NoResult == [kind |-> "none", value |-> <<>>]

\* a slot for a BPETokenizer object not created yet
NoObject == [allocated |-> FALSE, vocab |-> <<>>, token_to_id |-> <<>>, merges |-> <<>>]

\* BPETokenizer(): empty vocabulary, reverse map and merge table
NewObject == [allocated |-> TRUE, vocab |-> NewTokenizer.vocab,
              token_to_id |-> NewTokenizer.token_to_id, merges |-> NewTokenizer.merges]

NewFrame(kind, prefix, max_length) ==
    [pc |-> IF kind = "off" THEN "off"
            ELSE IF kind = "encode" THEN "bpe_ensure_loaded"
            ELSE IF kind = "decode" THEN "decode" ELSE "ensure_loaded",
     kind |-> kind, prefix |-> prefix, max_length |-> max_length, token_ids |-> <<>>,
     ret |-> "", counts |-> NoCounts, built |-> FALSE, self |-> None, line |-> 0,
     tokenizer |-> None, eot_ids |-> {}, words |-> <<>>, encoded_prefix |-> <<>>,
     story_tokens |-> <<>>, vocab |-> <<>>, text |-> <<>>, chunks |-> <<>>,
     i |-> 0, samples |-> 0, events |-> <<>>, result |-> NoResult]

Off == NewFrame("off", <<>>, 0)

BackendIdle ==
    /\ files = NoFiles /\ tokenizer_instance = None
    /\ heap = [t \in Threads |-> NoObject]
    /\ bpe = [merges |-> <<>>, loaded |-> FALSE]
    /\ call = [t \in Threads |-> Off]

(***************************************************************************)
(* Training and codec as a state machine.                                  *)
(***************************************************************************)
Variants == {"bpe_tokenizer", "train_bpe"}

CorpusWords == {<<"a">>, <<"a", "b">>, <<"b", "a">>, <<"a", "a", "a">>, EOS}

ForeignWord == <<"c">>

\* a word the corpus holds when a sentence-end token is not set off by
\* whitespace from the word after it
FusedWord == EOS \o <<"a">>

Corpora == {JoinWith(<<" ">>, ws) : ws \in SeqsOf(CorpusWords, 0, MaxCorpusWords)} \cup {FusedWord}

\* operation budgets: max_merges for train_bpe.py, vocab_size for bpe_tokenizer.py
Budgets(v) ==
    IF v = "train_bpe" THEN 0..MaxMerges
    ELSE {Len(SPECIAL_TOKENS) + k : k \in 0..(MaxMerges + 2)} \cup {MaxVocabSize}

\* texts handed to encode: words of the corpus and one foreign word, laid out
\* with single spaces or with padding and longer whitespace runs
TextsOver(words) ==
    UNION {{JoinWith(<<" ">>, ws), <<" ">> \o JoinWith(<<" ", "\n">>, ws) \o <<"\n">>} :
               ws \in SeqsOf(words, 0, MaxTextWords)}

NewTrain == [pc |-> "new", word_frequencies |-> <<>>, i |-> 0, num_merges |-> 0]

NoPrev == [done |-> FALSE, vocab |-> <<>>, merges |-> <<>>]

NoCodec == [done |-> FALSE, text |-> <<>>, ids |-> <<>>, decoded |-> <<>>]

TokIdle ==
    /\ variant = "train_bpe" /\ corpus = <<>> /\ budget = 0
    /\ tok = NewTokenizer /\ train = NewTrain /\ prev = NoPrev /\ codec = NoCodec

NoQuery == [done |-> FALSE, w1 |-> IntId(0), w2 |-> IntId(0), probs |-> <<>>]

LmIdle ==
    /\ stream = <<>> /\ pickles = NoPickles /\ model = NoneModel /\ loaded = FALSE
    /\ query = NoQuery

InitTok ==
    /\ LmIdle
    /\ BackendIdle
    /\ variant \in Variants
    /\ corpus \in Corpora
    /\ budget \in Budgets(variant)
    \* the fused word is trained by bpe_tokenizer.py with the largest vocab_size
    /\ corpus = FusedWord => (variant = "bpe_tokenizer" /\ budget = MaxVocabSize)
    /\ tok = NewTokenizer
    /\ train = NewTrain
    /\ prev = NoPrev
    /\ codec = NoCodec

\* train(), steps 1 and 2: pre-tokenize, initialise the vocabulary
TrainBegin ==
    /\ train.pc = "new"
    /\ LET wf == pretokenize(corpus)
       IN  \E iteration \in Orderings(unique_chars(variant, wf)) :
               LET t == initialize_vocab(tok, iteration)
               IN  /\ tok' = t
                   /\ train' = [pc |-> "loop", word_frequencies |-> wf, i |-> 0,
                                num_merges |-> num_merges(variant, budget, t)]
    /\ UNCHANGED <<variant, corpus, budget, prev, codec>>
    /\ UNCHANGED <<lmVars, backendVars>>

\* train(), one iteration of the merge loop
TrainStep ==
    /\ train.pc = "loop"
    /\ train.i < train.num_merges
    /\ count_pairs(train.word_frequencies) # <<>>
    /\ tok' = merge_step(tok, train.word_frequencies).tok
    /\ train' = [train EXCEPT
                     !.word_frequencies = merge_step(tok, train.word_frequencies).word_frequencies,
                     !.i = @ + 1]
    /\ UNCHANGED <<variant, corpus, budget, prev, codec>>
    /\ UNCHANGED <<lmVars, backendVars>>

\* train(), leaving the loop: range exhausted, or no pair left (break)
TrainEnd ==
    /\ train.pc = "loop"
    /\ train.i >= train.num_merges \/ count_pairs(train.word_frequencies) = <<>>
    /\ train' = [train EXCEPT !.pc = "done"]
    /\ UNCHANGED <<variant, corpus, budget, tok, prev, codec>>
    /\ UNCHANGED <<lmVars, backendVars>>

\* encode(text) followed by decode of the result, on the trained tokenizer
EncodeDecode ==
    /\ train.pc = "done"
    /\ ~prev.done
    /\ ~codec.done
    /\ \E text \in TextsOver(Range(Split(corpus)) \cup {ForeignWord}) :
           codec' = [done |-> TRUE, text |-> text, ids |-> tokenizer_encode(tok, text),
                     decoded |-> tokenizer_decode(tok, tokenizer_encode(tok, text))]
    /\ UNCHANGED <<variant, corpus, budget, tok, train, prev>>
    /\ UNCHANGED <<lmVars, backendVars>>

\* a second run: a fresh tokenizer trained on the same corpus and budget
TrainAgain ==
    /\ train.pc = "done"
    /\ ~prev.done
    /\ ~codec.done
    /\ prev' = [done |-> TRUE, vocab |-> tok.vocab, merges |-> tok.merges]
    /\ tok' = NewTokenizer
    /\ train' = NewTrain
    /\ UNCHANGED <<variant, corpus, budget, codec>>
    /\ UNCHANGED <<lmVars, backendVars>>

\* tokenizer.save(vocab_path, merges_path), on the tokenizer that was trained
\* and has encoded a text
Save ==
    /\ train.pc = "done"
    /\ codec.done
    /\ ~files.exists
    /\ files' = tokenizer_save(tok)
    /\ UNCHANGED <<tokVars, lmVars, tokenizer_instance, heap, bpe, call>>

\* BPETokenizer().load(vocab_path, merges_path): a fresh tokenizer of the same
\* class loads the saved artifacts
Load ==
    /\ files.exists
    /\ ~heap["t1"].allocated
    /\ heap' = [heap EXCEPT !["t1"] =
                    [allocated |-> TRUE,
                     vocab |-> tokenizer_load(variant, files).vocab,
                     token_to_id |-> tokenizer_load(variant, files).token_to_id,
                     merges |-> tokenizer_load(variant, files).merges]]
    /\ UNCHANGED <<tokVars, lmVars, files, tokenizer_instance, bpe, call>>

NextTok == TrainBegin \/ TrainStep \/ TrainEnd \/ EncodeDecode \/ TrainAgain \/ Save \/ Load

SpecTok == InitTok /\ [][NextTok]_vars

(***************************************************************************)
(* Two tokenizers that differ only in the order of their merge table, each *)
(* loaded from artifacts and asked to encode the same word.                *)
(***************************************************************************)
EncChars == {"a", "b", "c"}

\* words of three symbols
EncWords == [1..3 -> EncChars]

\* merge rules over single characters, and tables of two rules
EncRules == {<<<<x>>, <<y>>>> : x, y \in EncChars}

EncTables == [1..2 -> EncRules]

\* the artifacts of a tokenizer with the given merge table: the control
\* tokens, the characters and every merge result in the vocabulary
TableFiles(table) ==
    LET t == AddTokens(AddSpecials(NewTokenizer, SPECIAL_TOKENS),
                       <<<<"a">>, <<"b">>, <<"c">>>>
                           \o [k \in DOMAIN table |-> table[k][1] \o table[k][2]])
    IN  tokenizer_save([t EXCEPT !.merges = table])

Reversed(lines) == [i \in DOMAIN lines |-> lines[Len(lines) + 1 - i]]

\* t1 reads the merges file as written, t2 the same rules in reverse order
MergesFileOf(t) == IF t = "t1" THEN files.merges_txt ELSE Reversed(files.merges_txt)

InitEnc ==
    /\ LmIdle
    /\ variant \in Variants /\ corpus = <<>> /\ budget = 0
    /\ tok = NewTokenizer /\ train = NewTrain /\ prev = NoPrev /\ codec = NoCodec
    /\ \E table \in EncTables : files = TableFiles(table)
    /\ tokenizer_instance = None
    /\ heap = [t \in Threads |-> NoObject]
    /\ bpe = [merges |-> <<>>, loaded |-> FALSE]
    /\ \E word \in EncWords :
           call = [t \in Threads |->
                      [NewFrame("tokenizer_encode", <<>>, 0) EXCEPT !.pc = "load", !.text = word]]

\* BPETokenizer().load(vocab_path, merges_path)
LoadTable(t) ==
    /\ call[t].pc = "load"
    /\ LET loaded_tokenizer == tokenizer_load(variant, [files EXCEPT !.merges_txt = MergesFileOf(t)])
       IN  heap' = [heap EXCEPT ![t] = [allocated |-> TRUE,
                                        vocab |-> loaded_tokenizer.vocab,
                                        token_to_id |-> loaded_tokenizer.token_to_id,
                                        merges |-> loaded_tokenizer.merges]]
    /\ call' = [call EXCEPT ![t].pc = "encode_word"]
    /\ UNCHANGED <<tokVars, lmVars, files, tokenizer_instance, bpe>>

\* tokenizer.encode(word)
EncodeWord(t) ==
    /\ call[t].pc = "encode_word"
    /\ call' = [call EXCEPT ![t].token_ids = tokenizer_encode(heap[t], call[t].text),
                            ![t].pc = "done"]
    /\ UNCHANGED <<tokVars, lmVars, files, tokenizer_instance, heap, bpe>>

NextEnc == \E t \in Threads : LoadTable(t) \/ EncodeWord(t)

SpecEnc == InitEnc /\ [][NextEnc]_vars

(***************************************************************************)
(* Counting, index building and probability queries as a state machine.    *)
(***************************************************************************)
\* ids that occur in encoded corpora: <EOS>, <EOT> and one word token
StreamTokens == {IntId(0), IntId(2), IntId(5)}

\* contexts also range over the unknown id and over a str id, neither of
\* which occurs in any count table
ContextTokens == StreamTokens \cup {UNK_ID, StrId(5)}

Streams == SeqsOf(StreamTokens, 0, MaxStream)

InitLM ==
    /\ TokIdle
    /\ BackendIdle
    /\ stream \in Streams
    /\ pickles = NoPickles
    /\ model = NoneModel
    /\ loaded = FALSE
    /\ query = NoQuery

\* ngram_counter.save_all_counts(tokens)
SaveAllCounts ==
    /\ ~pickles.exists
    /\ pickles' = save_all_counts(stream)
    /\ UNCHANGED <<stream, model, loaded, query>>
    /\ UNCHANGED <<tokVars, backendVars>>

\* generator._ensure_loaded, run alone with the pickles in place
LoadModel ==
    /\ pickles.exists
    /\ ~loaded
    /\ model' = build_indexes(load_ngram_counts(pickles))
    /\ loaded' = TRUE
    /\ UNCHANGED <<stream, pickles, query>>
    /\ UNCHANGED <<tokVars, backendVars>>

\* generator._next_token_probs(w1, w2)
NextTokenProbs ==
    /\ loaded
    /\ ~query.done
    /\ \E w1 \in ContextTokens, w2 \in ContextTokens :
           query' = [done |-> TRUE, w1 |-> w1, w2 |-> w2,
                     probs |-> next_token_probs(model, w1, w2)]
    /\ UNCHANGED <<stream, pickles, model, loaded>>
    /\ UNCHANGED <<tokVars, backendVars>>

NextLM == SaveAllCounts \/ LoadModel \/ NextTokenProbs

SpecLM == InitLM /\ [][NextLM]_vars

(***************************************************************************)
(* The backend process.  Each thread makes one call: generate_story (the   *)
(* /generate handler), generate_story_streaming (iterated by the           *)
(* /generate/stream response in a worker thread) or the string encoder of  *)
(* Backend/bpe_tokenizer.py.  A thread can be pre-empted between any two   *)
(* reads or writes of module-level state, so the lazy loaders advance one  *)
(* such access at a time; what a call computes on its own locals between   *)
(* two accesses is one step.                                               *)
(***************************************************************************)
\* ---- main.py, _event_stream: the events of a /generate/stream response
\* (the only caller of generate_story_streaming), kept in the frame's events
\* data: {"token": chunk}
token_event(chunk) == [event |-> "token", data |-> chunk]

\* data: [DONE]
DoneEvent == [event |-> "done", data |-> <<>>]

\* except ValueError: data: {"error": str(exc)}; except Exception:
\* data: {"error": "Generation failed: ..."}
error_event(exception) ==
    [event |-> "error",
     data |-> IF exception = "ValueError" THEN <<exception>>
              ELSE <<"Generation failed", exception>>]

event_stream_end_silent(events) == events

\* the for loop over the generator is exhausted: yield "data: [DONE]"
event_stream_end(events) == Append(events, DoneEvent)

\* the exception leaves the call; for a streamed call it is caught by
\* _event_stream, which yields the error event
Raise(f, exception) ==
    [f EXCEPT !.pc = "done",
              !.result = [kind |-> exception, value |-> <<>>],
              !.events = IF f.kind = "generate_story_streaming"
                         THEN Append(@, error_event(exception)) ELSE @]

\* the call returns: (cleaned, words[:2]) from generate_story, the end of the
\* iteration from generate_story_streaming, after which _event_stream yields
\* the end marker
Return(f) ==
    [f EXCEPT !.pc = "done",
              !.events = IF f.kind = "generate_story_streaming"
                         THEN event_stream_end(@) ELSE @,
              !.result = [kind |-> "return",
                          value |-> IF f.kind = "generate_story"
                                    THEN <<cleaned(f.chunks),
                                           SubSeq(f.words, 1, IF Len(f.words) < 2
                                                              THEN Len(f.words) ELSE 2)>>
                                    ELSE <<>>]]

story_step_redraw(f, next_token, decoded) ==
    IF next_token \in f.eot_ids THEN Return(f)
    ELSE IF decoded = <<>> THEN f
    ELSE IF duplicate_terminator(decoded, f.text)
         THEN [f EXCEPT !.story_tokens = SubSeq(@, 1, Len(@) - 1), !.i = @ - 1]
    ELSE [f EXCEPT !.chunks = Append(@, decoded), !.text = @ \o decoded]

\* generate_story, the iteration after story_tokens.append(next_token): an
\* end-of-story id ends the call; otherwise the fragment is dropped when it
\* is empty or a duplicate terminator, and appended to continuation_chunks
\* and to full_text otherwise
story_step(f, next_token, decoded) ==
    IF next_token \in f.eot_ids THEN Return(f)
    ELSE IF decoded = <<>> \/ duplicate_terminator(decoded, f.text) THEN f
    ELSE [f EXCEPT !.chunks = Append(@, decoded), !.text = @ \o decoded]

streaming_step_no_dedup(f, next_token, decoded) ==
    IF next_token \in f.eot_ids THEN Return(f)
    ELSE IF decoded = <<>> THEN f
    ELSE [f EXCEPT !.text = @ \o decoded, !.chunks = Append(@, decoded),
                   !.events = Append(@, token_event(decoded)), !.pc = "yielded"]

streaming_step_eager(f, next_token, decoded) ==
    IF next_token \in f.eot_ids THEN Return(f)
    ELSE IF decoded = <<>> \/ duplicate_terminator(decoded, f.text) THEN f
    ELSE [f EXCEPT !.text = @ \o decoded, !.chunks = Append(@, decoded),
                   !.events = Append(@, token_event(decoded))]

\* generate_story_streaming, the iteration after story_tokens.append: the
\* same tests, on current_text; an accepted fragment is added to current_text
\* and yielded (chunks holds the fragments yielded so far), and _event_stream
\* yields the token event for it
streaming_step(f, next_token, decoded) ==
    IF next_token \in f.eot_ids THEN Return(f)
    ELSE IF decoded = <<>> \/ duplicate_terminator(decoded, f.text) THEN f
    ELSE [f EXCEPT !.text = @ \o decoded, !.chunks = Append(@, decoded),
                   !.events = Append(@, token_event(decoded)), !.pc = "yielded"]

\* ---- the environment: the training scripts writing the artifacts
\* train_bpe.py main(): tokenizer.save(TOKENS_FILE, MERGES_FILE)
SaveTokenizer ==
    /\ ~files.exists
    /\ files' = BackendFiles
    /\ UNCHANGED <<pickles, model, loaded, tokenizer_instance, heap, bpe, call>>
    /\ UNCHANGED <<tokVars, stream, query>>

\* ngram_counter.py main(): save_all_counts(all_tokens)
SavePickles ==
    /\ ~pickles.exists
    /\ pickles' = save_all_counts(stream)
    /\ UNCHANGED <<files, model, loaded, tokenizer_instance, heap, bpe, call>>
    /\ UNCHANGED <<tokVars, stream, query>>

\* ---- generator._ensure_loaded
\* if not _loaded:
EnsureLoaded(t) ==
    /\ call[t].pc = "ensure_loaded"
    /\ call' = [call EXCEPT ![t].pc = IF loaded THEN "get_eot_ids" ELSE "load_ngram_counts"]
    /\ UNCHANGED <<pickles, files, model, loaded, tokenizer_instance, heap, bpe>>
    /\ UNCHANGED <<tokVars, stream, query>>

\* uni, bi, tri, total = load_ngram_counts()
LoadNgramCounts(t) ==
    /\ call[t].pc = "load_ngram_counts"
    /\ call' = [call EXCEPT ![t] =
                   IF pickles.exists
                   THEN [call[t] EXCEPT !.pc = "build_indexes",
                                        !.counts = load_ngram_counts(pickles)]
                   ELSE Raise(call[t], "FileNotFoundError")]
    /\ UNCHANGED <<pickles, files, model, loaded, tokenizer_instance, heap, bpe>>
    /\ UNCHANGED <<tokVars, stream, query>>

\* _model = build_indexes(uni, bi, tri, total)
BuildIndexes(t) ==
    /\ call[t].pc = "build_indexes"
    /\ model' = build_indexes(call[t].counts)
    /\ call' = [call EXCEPT ![t].pc = "set_loaded", ![t].built = TRUE]
    /\ UNCHANGED <<pickles, files, loaded, tokenizer_instance, heap, bpe>>
    /\ UNCHANGED <<tokVars, stream, query>>

\* _loaded = True
SetLoaded(t) ==
    /\ call[t].pc = "set_loaded"
    /\ loaded' = TRUE
    /\ call' = [call EXCEPT ![t].pc = "get_eot_ids"]
    /\ UNCHANGED <<pickles, files, model, tokenizer_instance, heap, bpe>>
    /\ UNCHANGED <<tokVars, stream, query>>

\* ---- tokenizer_utils.get_tokenizer, called by _get_eot_ids, by encode and
\* by decode
\* if _tokenizer_instance is None:
GetTokenizer(t) ==
    /\ call[t].pc \in {"get_eot_ids", "encode", "decode"}
    /\ call' = [call EXCEPT ![t].ret = call[t].pc,
                            ![t].pc = IF tokenizer_instance = None
                                      THEN "new_tokenizer" ELSE "return_tokenizer"]
    /\ UNCHANGED <<pickles, files, model, loaded, tokenizer_instance, heap, bpe>>
    /\ UNCHANGED <<tokVars, stream, query>>

\* _tokenizer_instance = BPETokenizer()
CreateTokenizer(t) ==
    /\ call[t].pc = "new_tokenizer"
    /\ heap' = [heap EXCEPT ![t] = NewObject]
    /\ tokenizer_instance' = t
    /\ call' = [call EXCEPT ![t].pc = "artifacts_exist"]
    /\ UNCHANGED <<pickles, files, model, loaded, bpe>>
    /\ UNCHANGED <<tokVars, stream, query>>

\* if VOCAB_PATH.exists() and MERGES_PATH.exists(): _tokenizer_instance.load
\* is looked up; else: raise FileNotFoundError
ArtifactsExist(t) ==
    /\ call[t].pc = "artifacts_exist"
    /\ call' = [call EXCEPT ![t] =
                   IF files.exists
                   THEN [call[t] EXCEPT !.pc = "load_vocab", !.self = tokenizer_instance]
                   ELSE Raise(call[t], "FileNotFoundError")]
    /\ UNCHANGED <<pickles, files, model, loaded, tokenizer_instance, heap, bpe>>
    /\ UNCHANGED <<tokVars, stream, query>>

\* load(): self.vocab = json.load(f)
LoadVocab(t) ==
    /\ call[t].pc = "load_vocab"
    /\ heap' = [heap EXCEPT ![call[t].self].vocab = load_vocab(BackendClass, files.vocab_json)]
    /\ call' = [call EXCEPT ![t].pc = "load_token_to_id"]
    /\ UNCHANGED <<pickles, files, model, loaded, tokenizer_instance, bpe>>
    /\ UNCHANGED <<tokVars, stream, query>>

\* load(): self.token_to_id = {v: k for k, v in self.vocab.items()}
LoadTokenToId(t) ==
    /\ call[t].pc = "load_token_to_id"
    /\ heap' = [heap EXCEPT ![call[t].self].token_to_id = reverse_vocab(heap[call[t].self].vocab)]
    /\ call' = [call EXCEPT ![t].pc = "clear_merges"]
    /\ UNCHANGED <<pickles, files, model, loaded, tokenizer_instance, bpe>>
    /\ UNCHANGED <<tokVars, stream, query>>

\* load(): self.merges = []
ClearMerges(t) ==
    /\ call[t].pc = "clear_merges"
    /\ heap' = [heap EXCEPT ![call[t].self].merges = <<>>]
    /\ call' = [call EXCEPT ![t].pc = "load_merges", ![t].line = 1]
    /\ UNCHANGED <<pickles, files, model, loaded, tokenizer_instance, bpe>>
    /\ UNCHANGED <<tokVars, stream, query>>

\* load(): one line of the merges file, self.merges.append(...)
LoadMergeLine(t) ==
    /\ call[t].pc = "load_merges"
    /\ call[t].line <= Len(files.merges_txt)
    /\ heap' = [heap EXCEPT ![call[t].self].merges =
                                load_merge_line(@, files.merges_txt[call[t].line])]
    /\ call' = [call EXCEPT ![t].line = @ + 1]
    /\ UNCHANGED <<pickles, files, model, loaded, tokenizer_instance, bpe>>
    /\ UNCHANGED <<tokVars, stream, query>>

\* load(): the file is exhausted, load returns
LoadReturn(t) ==
    /\ call[t].pc = "load_merges"
    /\ call[t].line > Len(files.merges_txt)
    /\ call' = [call EXCEPT ![t].pc = "return_tokenizer"]
    /\ UNCHANGED <<pickles, files, model, loaded, tokenizer_instance, heap, bpe>>
    /\ UNCHANGED <<tokVars, stream, query>>

\* return _tokenizer_instance
ReturnTokenizer(t) ==
    /\ call[t].pc = "return_tokenizer"
    /\ call' = [call EXCEPT ![t].tokenizer = tokenizer_instance,
                            ![t].pc = IF call[t].ret = "get_eot_ids" THEN "eot_ids"
                                      ELSE IF call[t].ret = "decode" THEN "decode_ids"
                                      ELSE "encode_prefix"]
    /\ UNCHANGED <<pickles, files, model, loaded, tokenizer_instance, heap, bpe>>
    /\ UNCHANGED <<tokVars, stream, query>>

\* ---- generate_story / generate_story_streaming
\* _eot_ids = _get_eot_ids(), on the tokenizer just returned; then
\* words = prefix.strip().split() and the check on their number
Validate(t) ==
    /\ call[t].pc = "eot_ids"
    /\ call' = [call EXCEPT ![t] =
                   LET words == Split(Strip(call[t].prefix))
                       f == [call[t] EXCEPT !.eot_ids = get_eot_ids(heap[call[t].tokenizer]),
                                            !.words = words]
                   IN  IF too_few_words(words) THEN Raise(f, "ValueError")
                       ELSE [f EXCEPT !.pc = "encode"]]
    /\ UNCHANGED <<pickles, files, model, loaded, tokenizer_instance, heap, bpe>>
    /\ UNCHANGED <<tokVars, stream, query>>

\* encoded_prefix = encode(prefix), on the tokenizer just returned; the check
\* on its length; story_tokens, vocab = _model["vocab"], full_text = prefix
EncodePrefix(t) ==
    /\ call[t].pc = "encode_prefix"
    /\ call' = [call EXCEPT ![t] =
                   LET encoded_prefix == tokenizer_encode(heap[call[t].tokenizer],
                                                          call[t].prefix)
                   IN  IF Len(encoded_prefix) < 2 THEN Raise(call[t], "ValueError")
                       ELSE [call[t] EXCEPT !.pc = "loop",
                                            !.encoded_prefix = encoded_prefix,
                                            !.story_tokens = encoded_prefix,
                                            !.vocab = model.vocab,
                                            !.text = call[t].prefix,
                                            !.chunks = <<>>]]
    /\ UNCHANGED <<pickles, files, model, loaded, tokenizer_instance, heap, bpe>>
    /\ UNCHANGED <<tokVars, stream, query>>

\* the distribution of the next token after the last two of the sequence
Probs(f) ==
    next_token_probs(model, f.story_tokens[Len(f.story_tokens) - 1],
                     f.story_tokens[Len(f.story_tokens)])

\* the loop ends: range(max_length) is exhausted, or sum(probs) == 0: break
LoopExit(t) ==
    /\ call[t].pc = "loop"
    /\ \/ ~range_has_next(call[t].i, call[t].max_length)
       \/ RatSum(Probs(call[t])) = RatZero
    /\ call' = [call EXCEPT ![t] = Return(call[t])]
    /\ UNCHANGED <<pickles, files, model, loaded, tokenizer_instance, heap, bpe>>
    /\ UNCHANGED <<tokVars, stream, query>>

\* one iteration that samples: random.choices(vocab, weights=probs) draws any
\* token of positive weight; the token is appended; the rest of the iteration
\* is the body of generate_story or of generate_story_streaming, with
\* decode_token applied on the tokenizer get_tokenizer() returns now
Sample(t) ==
    /\ call[t].pc = "loop"
    /\ range_has_next(call[t].i, call[t].max_length)
    /\ RatSum(Probs(call[t])) # RatZero
    /\ \E k \in DOMAIN call[t].vocab \cap DOMAIN Probs(call[t]) :
          /\ Probs(call[t])[k][1] > 0
          /\ call' = [call EXCEPT ![t] =
                LET next_token == call[t].vocab[k]
                    decoded == decode_token(heap[tokenizer_instance], next_token)
                    f == [call[t] EXCEPT !.story_tokens = Append(@, next_token),
                                   !.samples = @ + 1,
                                   !.i = @ + 1]
                IN  IF f.kind = "generate_story_streaming"
                    THEN streaming_step(f, next_token, decoded)
                    ELSE story_step(f, next_token, decoded)]
    /\ UNCHANGED <<pickles, files, model, loaded, tokenizer_instance, heap, bpe>>
    /\ UNCHANGED <<tokVars, stream, query>>

\* the consumer of the stream asks for the next fragment: the generator
\* resumes after its yield
Pull(t) ==
    /\ call[t].pc = "yielded"
    /\ call' = [call EXCEPT ![t].pc = "loop"]
    /\ UNCHANGED <<pickles, files, model, loaded, tokenizer_instance, heap, bpe>>
    /\ UNCHANGED <<tokVars, stream, query>>

\* ---- tokenizer_utils.decode(token_ids)
\* return get_tokenizer().decode(token_ids), on the tokenizer just returned
Decode(t) ==
    /\ call[t].pc = "decode_ids"
    /\ call' = [call EXCEPT ![t].pc = "done",
                            ![t].result =
                                [kind |-> "return",
                                 value |-> tokenizer_decode(heap[call[t].tokenizer],
                                                            call[t].token_ids)]]
    /\ UNCHANGED <<pickles, files, model, loaded, tokenizer_instance, heap, bpe>>
    /\ UNCHANGED <<tokVars, stream, query>>

\* ---- Backend/bpe_tokenizer.py: encode(text)
\* _ensure_loaded(): if not _loaded:
BpeEnsureLoaded(t) ==
    /\ call[t].pc = "bpe_ensure_loaded"
    /\ call' = [call EXCEPT ![t].pc = IF bpe.loaded THEN "bpe_encode" ELSE "bpe_load_merges"]
    /\ UNCHANGED <<pickles, files, model, loaded, tokenizer_instance, heap, bpe>>
    /\ UNCHANGED <<tokVars, stream, query>>

\* _merges = _load_merges(MERGES_PATH)
BpeLoadMerges(t) ==
    /\ call[t].pc = "bpe_load_merges"
    /\ bpe' = IF files.exists THEN [bpe EXCEPT !.merges = load_merges(files)] ELSE bpe
    /\ call' = [call EXCEPT ![t] = IF files.exists
                                   THEN [call[t] EXCEPT !.pc = "bpe_set_loaded"]
                                   ELSE Raise(call[t], "FileNotFoundError")]
    /\ UNCHANGED <<pickles, files, model, loaded, tokenizer_instance, heap>>
    /\ UNCHANGED <<tokVars, stream, query>>

\* _loaded = True
BpeSetLoaded(t) ==
    /\ call[t].pc = "bpe_set_loaded"
    /\ bpe' = [bpe EXCEPT !.loaded = TRUE]
    /\ call' = [call EXCEPT ![t].pc = "bpe_encode"]
    /\ UNCHANGED <<pickles, files, model, loaded, tokenizer_instance, heap>>
    /\ UNCHANGED <<tokVars, stream, query>>

\* the rest of encode(text), on the module's merge table
BpeEncode(t) ==
    /\ call[t].pc = "bpe_encode"
    /\ call' = [call EXCEPT ![t].pc = "done",
                            ![t].result = [kind |-> "return",
                                           value |-> bpe_encode(bpe.merges, call[t].prefix)]]
    /\ UNCHANGED <<pickles, files, model, loaded, tokenizer_instance, heap, bpe>>
    /\ UNCHANGED <<tokVars, stream, query>>

Step(t) ==
    \/ EnsureLoaded(t) \/ LoadNgramCounts(t) \/ BuildIndexes(t) \/ SetLoaded(t)
    \/ GetTokenizer(t) \/ CreateTokenizer(t) \/ ArtifactsExist(t)
    \/ LoadVocab(t) \/ LoadTokenToId(t) \/ ClearMerges(t) \/ LoadMergeLine(t) \/ LoadReturn(t)
    \/ ReturnTokenizer(t) \/ Validate(t) \/ EncodePrefix(t)
    \/ LoopExit(t) \/ Sample(t) \/ Pull(t) \/ Decode(t)
    \/ BpeEnsureLoaded(t) \/ BpeLoadMerges(t) \/ BpeSetLoaded(t) \/ BpeEncode(t)

Run == \E t \in Threads : Step(t)

NextBackend == SaveTokenizer \/ SavePickles \/ Run

\* the module state of a process that has just started
BackendStart ==
    /\ TokIdle
    /\ query = NoQuery
    /\ model = NoneModel /\ loaded = FALSE
    /\ tokenizer_instance = None
    /\ heap = [t \in Threads |-> NoObject]
    /\ bpe = [merges |-> <<>>, loaded |-> FALSE]

\* the calls made of the backend: a generation or an encode of a prefix, a
\* decode of an id sequence
Calls(prefixes, lengths) ==
    {NewFrame(kind, prefix, max_length) :
         kind \in Kinds \ {"decode"}, prefix \in prefixes, max_length \in lengths}
    \cup {[NewFrame("decode", <<>>, 0) EXCEPT !.token_ids = ids] :
              ids \in SeqsOf(DecodeIds, 0, MaxDecode)}

\* one call, of any kind, on any of the models, artifacts present or not
InitGen ==
    /\ BackendStart
    /\ stream \in GenStreams
    /\ pickles \in {NoPickles, save_all_counts(stream)}
    /\ files \in {NoFiles, BackendFiles}
    /\ \E f \in Calls(Prefixes, 0..MaxLength) :
           call = [t \in Threads |-> IF t = "t1" THEN f ELSE Off]

SpecGen == InitGen /\ [][NextBackend]_vars

\* two calls on first use of the process: the /generate handler or a direct
\* caller on one thread, a streamed generation on another
InitLoad ==
    /\ BackendStart
    /\ stream = <<IntId(5), IntId(0), IntId(5), IntId(2)>>
    /\ pickles \in {NoPickles, save_all_counts(stream)}
    /\ files \in {NoFiles, BackendFiles}
    /\ \E f \in Calls({<<"a">>, <<"a", " ", "a", "b">>}, {1}),
          p2 \in {<<"a">>, <<"a", " ", "a", "b">>} :
           call = [t \in Threads |->
                      IF t = "t1" THEN f
                      ELSE NewFrame("generate_story_streaming", p2, 1)]

SpecLoad == InitLoad /\ [][NextBackend]_vars

\* the tokenizer object of a process whose get_tokenizer() has completed
LoadedObject ==
    [allocated |-> TRUE,
     vocab |-> tokenizer_load(BackendClass, BackendFiles).vocab,
     token_to_id |-> tokenizer_load(BackendClass, BackendFiles).token_to_id,
     merges |-> tokenizer_load(BackendClass, BackendFiles).merges]

\* the module state of a process that has served a first call: _model built
\* and _loaded set by _ensure_loaded, _tokenizer_instance loaded
WarmStart ==
    /\ TokIdle
    /\ query = NoQuery
    /\ pickles = save_all_counts(stream)
    /\ model = build_indexes(load_ngram_counts(save_all_counts(stream)))
    /\ loaded = TRUE
    /\ files = BackendFiles
    /\ tokenizer_instance = "t1"
    /\ heap = [t \in Threads |-> IF t = "t1" THEN LoadedObject ELSE NoObject]
    /\ bpe = [merges |-> <<>>, loaded |-> FALSE]

PairPrefixes == {<<"a">>, <<"a", " ", "a", "b">>, <<"a", " ", "a", "b", FULLSTOP>>}

\* the same request made of /generate and of /generate/stream: the same
\* prefix and max_length, on the same loaded model
InitPair ==
    /\ stream \in GenStreams
    /\ WarmStart
    /\ \E prefix \in PairPrefixes, max_length \in 0..MaxLength :
           call = [t \in Threads |->
                      IF t = "t1" THEN NewFrame("generate_story", prefix, max_length)
                      ELSE NewFrame("generate_story_streaming", prefix, max_length)]

\* the steps of a generation call in a process whose artifacts are loaded
NextPair ==
    \E t \in Threads :
        \/ EnsureLoaded(t) \/ GetTokenizer(t) \/ ReturnTokenizer(t) \/ Validate(t)
        \/ EncodePrefix(t) \/ LoopExit(t) \/ Sample(t) \/ Pull(t)

SpecPair == InitPair /\ [][NextPair]_vars

\* two calls of the same function with the same prefix and max_length, in a
\* process whose artifacts are loaded
InitStop ==
    /\ stream \in GenStreams
    /\ WarmStart
    /\ \E kind \in {"generate_story", "generate_story_streaming"},
          prefix \in PairPrefixes, max_length \in 0..MaxLength :
           call = [t \in Threads |-> NewFrame(kind, prefix, max_length)]

SpecStop == InitStop /\ [][NextPair]_vars

(***************************************************************************)
(* Claims about the language model, checked under SpecLM.                  *)
(***************************************************************************)
\* C2: for count tables built from a token stream, every context (w1, w2),
\* seen or unseen, and every vocabulary token t, the entry of
\* _next_token_probs(w1, w2) at vocab_index[t] is the interpolated
\* probability get_interpolated_prob(w1, w2, t) computes from the raw counts.
C2_SparseEqualsDense ==
    query.done =>
        \A i \in DOMAIN model.vocab :
            query.probs[DictGet(model.vocab_index, model.vocab[i], 0) + 1]
                = get_interpolated_prob(pickles, query.w1, query.w2, model.vocab[i])

\* a seen context whose bigram and trigram terms both contribute, queried
\* over a vocabulary of several tokens
C2_Witness ==
    /\ query.done
    /\ Len(model.vocab) >= 2
    /\ DictHas(model.trigram_next, <<query.w1, query.w2>>)
    /\ DictHas(model.bigram_next, query.w2)
    /\ query.w1 # query.w2

\* an unseen context: only the unigram floor is left
C2_WitnessUnseen ==
    /\ query.done
    /\ Len(model.vocab) >= 2
    /\ ~DictHas(model.bigram_next, query.w2)
    /\ query.probs = model.base_probs

(***************************************************************************)
(* Claims about the tokenizer, checked under SpecTok.                      *)
(***************************************************************************)
\* the text consists of words of the training corpus that are not control
\* spellings (so every character of it was seen in training)
TextFromCorpus(text) ==
    \A w \in Range(Split(text)) : w \in Range(Split(corpus)) /\ ~DictHas(SPECIAL_TOKENS, w)

\* C1: for a trained tokenizer and a text made of whitespace-separated words
\* of the training corpus, decode(encode(text)) is the text with its runs of
\* whitespace collapsed to single spaces and trimmed.
C1_RoundTrip ==
    (codec.done /\ TextFromCorpus(codec.text))
        => codec.decoded = JoinWith(<<" ">>, Split(codec.text))

\* C6: two training runs, each on a fresh tokenizer, with the same corpus and
\* the same operation budget end with the same merge table (same pairs, same
\* order) and the same id-to-token vocabulary, whatever order the set of
\* observed characters is iterated in.
C6_TrainingDeterministic ==
    (train.pc = "done" /\ prev.done) => (tok.merges = prev.merges /\ tok.vocab = prev.vocab)

\* a second run has finished on a corpus with several characters and merges
C6_Witness ==
    /\ train.pc = "done" /\ prev.done
    /\ Len(tok.merges) >= 2
    /\ Cardinality(unique_chars(variant, pretokenize(corpus))) >= 3

\* C16: save followed by load on a fresh tokenizer of the same class restores
\* the vocabulary with its integer ids and the merge rules in their order, so
\* that encode after load returns the ids encode returned before save.
C16_SaveLoadRestores ==
    (train.pc = "done" /\ codec.done /\ heap["t1"].allocated)
        => /\ heap["t1"].vocab = tok.vocab
           /\ heap["t1"].merges = tok.merges
           /\ tokenizer_encode(heap["t1"], codec.text) = codec.ids

\* the observed characters of the corpus that are not control spellings, in
\* sorted order
ObservedChars ==
    LET chars == unique_chars(variant, pretokenize(corpus)) \ {kv[1] : kv \in Range(SPECIAL_TOKENS)}
    IN  sorted(CHOOSE iteration \in Orderings(chars) : TRUE)

\* C17: after train of bpe_tokenizer.py the vocabulary is a bijection between
\* the dense ids 0..n-1 and n distinct token strings: the control tokens at
\* ids 0..3, then the observed characters in sorted order, then the merge
\* results in creation order, and token_to_id is the exact inverse of vocab.
C17_VocabBijection ==
    (variant = "bpe_tokenizer" /\ train.pc = "done")
        => /\ \A i \in DOMAIN tok.vocab : tok.vocab[i][1] = IntId(i - 1)
           /\ \A i, j \in DOMAIN tok.vocab : i # j => tok.vocab[i][2] # tok.vocab[j][2]
           /\ DictValues(tok.vocab) =
                  DictKeys(SPECIAL_TOKENS) \o ObservedChars
                      \o [k \in DOMAIN tok.merges |-> tok.merges[k][1] \o tok.merges[k][2]]
           /\ {<<kv[2], kv[1]>> : kv \in Range(tok.token_to_id)} = Range(tok.vocab)

\* C18: encode returns one id per symbol left after merging: the reserved
\* unknown id 3 for a symbol that is not in the vocabulary, and for every
\* other symbol an id under which the vocabulary holds that symbol.
C18_UnknownBecomesUnk ==
    codec.done
        => LET flat == Join(encode_symbols(tok, codec.text))
           IN  /\ Len(codec.ids) = Len(flat)
               /\ \A i \in DOMAIN flat :
                      IF flat[i] \in Range(DictValues(tok.vocab))
                      THEN <<codec.ids[i], flat[i]>> \in Range(tok.vocab)
                      ELSE codec.ids[i] = IntId(3)

\* a text was encoded that holds a symbol outside the vocabulary next to a
\* merged symbol of the vocabulary
C18_Witness ==
    /\ codec.done
    /\ \E i \in DOMAIN codec.ids :
           /\ codec.ids[i] = IntId(3)
           /\ Join(encode_symbols(tok, codec.text))[i] \notin Range(DictValues(tok.vocab))
    /\ \E i \in DOMAIN codec.ids :
           /\ codec.ids[i][2] > 3
           /\ Len(Join(encode_symbols(tok, codec.text))[i]) > 1

\* the number of positions of the stream at which the window of tokens starts
Occurrences(window) ==
    Cardinality({i \in 1..(Len(stream) - Len(window) + 1) :
                     SubSeq(stream, i, i + Len(window) - 1) = window})

\* a count table holds each key once, and no key with a count of zero
WellFormedCounts(counts) ==
    /\ \A i, j \in DOMAIN counts : i # j => counts[i][1] # counts[j][1]
    /\ \A i \in DOMAIN counts : counts[i][2] > 0

\* C20: for every token stream the three count tables hold, for each token,
\* pair and triple, exactly the number of positions at which it occurs as a
\* sliding window of width 1, 2 and 3 over the whole stream, control tokens
\* included, so that the counts sum to n, max(n-1,0) and max(n-2,0).
C20_SlidingWindowCounts ==
    pickles.exists
        => /\ \A x \in StreamTokens : DictGet(pickles.uni, x, 0) = Occurrences(<<x>>)
           /\ \A x, y \in StreamTokens : DictGet(pickles.bi, <<x, y>>, 0) = Occurrences(<<x, y>>)
           /\ \A x, y, z \in StreamTokens :
                  DictGet(pickles.tri, <<x, y, z>>, 0) = Occurrences(<<x, y, z>>)
           /\ WellFormedCounts(pickles.uni) /\ WellFormedCounts(pickles.bi)
           /\ WellFormedCounts(pickles.tri)
           /\ Range(DictKeys(pickles.uni)) \subseteq StreamTokens
           /\ Range(DictKeys(pickles.bi)) \subseteq StreamTokens \X StreamTokens
           /\ Range(DictKeys(pickles.tri)) \subseteq StreamTokens \X StreamTokens \X StreamTokens
           /\ SumValues(pickles.uni) = Len(stream)
           /\ SumValues(pickles.bi) = (IF Len(stream) > 1 THEN Len(stream) - 1 ELSE 0)
           /\ SumValues(pickles.tri) = (IF Len(stream) > 2 THEN Len(stream) - 2 ELSE 0)

\* the counted stream holds two stories: a pair occurs twice, and a pair and
\* a triple span the story-end token
C20_Witness ==
    /\ pickles.exists
    /\ stream = <<IntId(5), IntId(2), IntId(5), IntId(2)>>
    /\ DictGet(pickles.bi, <<IntId(5), IntId(2)>>, 0) = 2
    /\ DictGet(pickles.bi, <<IntId(2), IntId(5)>>, 0) = 1
    /\ DictGet(pickles.tri, <<IntId(5), IntId(2), IntId(5)>>, 0) = 1

RECURSIVE MergeWords(_, _)
\* the training-time replacement _merge_word, one rule after the other in
\* table order, each on the result of the rule before
MergeWords(word, merges) ==
    IF merges = <<>> THEN word ELSE MergeWords(merge_word(word, Head(merges)), Tail(merges))

\* the segmentation a word of the corpus has in the word table of train()
Segmentation(word) ==
    train.word_frequencies[DictIndex(pretokenize(corpus), WordSymbols(word))][1]

\* C22: encode applies the merge rules in table order, each rule on all its
\* non-overlapping occurrences left to right, and the in-place replacement
\* of _apply_merge gives what the training-time replacement _merge_word
\* gives; so a word of the training corpus is encoded to the segmentation it
\* had at the end of training, and with the table [(a,b)] the text "ab" is
\* encoded to the symbols "ab", "</w>".
C22_EncodeReplaysTraining ==
    codec.done
        => LET words == Split(codec.text)
               symbols == encode_symbols(tok, codec.text)
           IN  /\ Len(symbols) = Len(words)
               /\ \A w \in DOMAIN words :
                      /\ symbols[w] = MergeWords(WordSymbols(words[w]), tok.merges)
                      /\ words[w] \in Range(Split(corpus)) => symbols[w] = Segmentation(words[w])
               /\ (tok.merges = <<<<<<"a">>, <<"b">>>>>> /\ codec.text = <<"a", "b">>)
                      => symbols = <<<<<<"a", "b">>, WORD_END>>>>

\* the text "ab" was encoded with the merge table [(a,b)]
C22_Witness ==
    /\ codec.done
    /\ tok.merges = <<<<<<"a">>, <<"b">>>>>>
    /\ codec.text = <<"a", "b">>
    /\ codec.ids # <<>>

\* a word in which the occurrences of a rule overlap was encoded
C22_WitnessOverlap ==
    /\ codec.done
    /\ <<<<"a">>, <<"a">>>> \in Range(tok.merges)
    /\ <<"a", "a", "a">> \in Range(Split(codec.text))

\* the places <<word index, position>> of a word table at which an adjacent
\* pair starts, and those at which the pair q starts
PairPlaces(wf) == UNION {{<<k, i>> : i \in 1..(Len(wf[k][1]) - 1)} : k \in DOMAIN wf}

PlacesOf(wf, q) == {x \in PairPlaces(wf) : <<wf[x[1]][1][x[2]], wf[x[1]][1][x[2] + 1]>> = q}

RECURSIVE SumFrequencies(_, _)
SumFrequencies(wf, places) ==
    IF places = {} THEN 0
    ELSE LET x == CHOOSE y \in places : TRUE
         IN  wf[x[1]][2] + SumFrequencies(wf, places \ {x})

\* the aggregate frequency of a pair: the frequency of each word that holds
\* it, once per occurrence
AggregateFrequency(wf, q) == SumFrequencies(wf, PlacesOf(wf, q))

\* place x is scanned before place y: an earlier word, or earlier in the word
ScannedBefore(x, y) == x[1] < y[1] \/ (x[1] = y[1] /\ x[2] < y[2])

\* pair p is discovered before pair q
DiscoveredBefore(wf, p, q) ==
    \E x \in PlacesOf(wf, p) : \A y \in PlacesOf(wf, q) : ScannedBefore(x, y)

\* pair p is the pair the claim describes for the word table wf
HighestFirstDiscovered(wf, p) ==
    /\ PlacesOf(wf, p) # {}
    /\ \A x \in PairPlaces(wf) :
           LET q == <<wf[x[1]][1][x[2]], wf[x[1]][1][x[2] + 1]>>
           IN  /\ AggregateFrequency(wf, q) <= AggregateFrequency(wf, p)
               /\ (AggregateFrequency(wf, q) = AggregateFrequency(wf, p) /\ q # p)
                      => DiscoveredBefore(wf, p, q)

C23_Step ==
    (train.pc = "loop" /\ Len(tok'.merges) = Len(tok.merges) + 1)
        => HighestFirstDiscovered(train.word_frequencies, tok'.merges[Len(tok'.merges)])

\* C23: at every training step the pair recorded as the next merge rule has
\* an aggregate frequency at least as high as every other adjacent pair, and
\* among the pairs of highest frequency it is the one discovered first when
\* the word table is scanned in insertion order, each word left to right.
C23_BestPairFirstDiscovered == [][C23_Step]_vars

\* the first rule was recorded from a table in which two pairs tie for the
\* highest frequency and a pair of lower frequency is discovered before both
C23_Witness ==
    /\ train.i = 1 /\ Len(tok.merges) = 1
    /\ LET wf == pretokenize(corpus)
           p == tok.merges[1]
       IN  /\ HighestFirstDiscovered(wf, p)
           /\ \E x \in PairPlaces(wf) :
                  LET q == <<wf[x[1]][1][x[2]], wf[x[1]][1][x[2] + 1]>>
                  IN  q # p /\ AggregateFrequency(wf, q) = AggregateFrequency(wf, p)
           /\ \E x \in PairPlaces(wf) :
                  LET q == <<wf[x[1]][1][x[2]], wf[x[1]][1][x[2] + 1]>>
                  IN  /\ AggregateFrequency(wf, q) < AggregateFrequency(wf, p)
                      /\ DiscoveredBefore(wf, q, p)

\* the reserved control spellings
ControlSpellings == Range(DictKeys(SPECIAL_TOKENS))

\* the symbols of a word's tuple, joined, spell the word as it was expanded:
\* nothing of another word was merged into it
WithinWord(symbols, word) == Join(symbols) = Join(WordSymbols(word))

\* C24: a word that is exactly a control spelling stays one atomic symbol
\* through training and encoding, no merge rule has a control token as a
\* component, no merge joins symbols of two different words, and a word of
\* one character can only merge its character with its own marker.
C24_ControlTokensAtomic ==
    /\ train.pc \in {"loop", "done"}
           => LET words == DictKeys(pretokenize(corpus))
              IN  /\ Len(train.word_frequencies) = Len(words)
                  /\ \A k \in DOMAIN words :
                         LET symbols == train.word_frequencies[k][1]
                         IN  /\ Join(symbols) = Join(words[k])
                             /\ words[k][1] \in ControlSpellings => symbols = words[k]
                             /\ (Len(words[k]) = 2 /\ Len(words[k][1]) = 1)
                                    => symbols \in {words[k], <<Join(words[k])>>}
    /\ \A k \in DOMAIN tok.merges :
           tok.merges[k][1] \notin ControlSpellings /\ tok.merges[k][2] \notin ControlSpellings
    /\ codec.done
           => LET words == Split(codec.text)
                  symbols == encode_symbols(tok, codec.text)
              IN  /\ Len(symbols) = Len(words)
                  /\ \A w \in DOMAIN words :
                         /\ WithinWord(symbols[w], words[w])
                         /\ words[w] \in ControlSpellings => symbols[w] = <<words[w]>>
                         /\ Len(words[w]) = 1
                                => symbols[w] \in {<<words[w], WORD_END>>, <<words[w] \o WORD_END>>}

\* the size of the vocabulary before the first merge: the control tokens and
\* the observed characters (with the marker, in train_bpe.py)
InitialSize == Len(SPECIAL_TOKENS) + Len(ObservedChars)

\* the operation budget of the run
OperationBudget ==
    IF variant = "train_bpe" THEN budget
    ELSE IF budget - InitialSize > 0 THEN budget - InitialSize ELSE 0

\* no word of the table holds two symbols
NoPairRemains == \A k \in DOMAIN train.word_frequencies : Len(train.word_frequencies[k][1]) <= 1

C26_Budget ==
    train.pc \in {"loop", "done"}
        => /\ Len(tok.merges) = train.i
           /\ Len(tok.merges) <= OperationBudget
           /\ Len(tok.vocab) = InitialSize + Len(tok.merges)
           /\ \A k \in DOMAIN tok.merges :
                  tok.vocab[InitialSize + k] =
                      <<IntId(InitialSize + k - 1), tok.merges[k][1] \o tok.merges[k][2]>>
           /\ train.pc = "done" => (Len(tok.merges) < OperationBudget <=> NoPairRemains)
                                       \/ (Len(tok.merges) = OperationBudget /\ NoPairRemains)

\* a step of the merge loop records one more rule, or ends the run; the run
\* ends only with the budget used or with no pair left
C26_Step ==
    (train.pc = "loop" /\ train' # train)
        => \/ /\ train'.pc = "loop"
              /\ train'.i = train.i + 1
              /\ Len(tok'.merges) = Len(tok.merges) + 1
              /\ ~NoPairRemains
           \/ /\ train'.pc = "done"
              /\ tok' = tok
              /\ Len(tok.merges) = OperationBudget \/ NoPairRemains

\* C26: train terminates: every step of its loop records one more merge
\* rule and the rules never exceed the operation budget (max_merges in
\* train_bpe.py; vocab_size minus the initial vocabulary size, none when
\* that is not positive, in bpe_tokenizer.py); it stops before the budget is
\* used exactly when no adjacent pair remains in any word; and len(vocab) is
\* the initial size plus len(merges), the merge result of iteration k
\* (counted from 0) holding id initial size + k.
C26_TrainBounded == []C26_Budget /\ [][C26_Step]_vars

\* a run stopped early, after one merge, with budget left
C26_Witness ==
    /\ train.pc = "done"
    /\ Len(tok.merges) >= 1
    /\ Len(tok.merges) < OperationBudget
    /\ NoPairRemains

\* a run used its whole budget of two or more merges with pairs remaining
C26_WitnessBudgetUsed ==
    /\ train.pc = "done"
    /\ Len(tok.merges) >= 2
    /\ Len(tok.merges) = OperationBudget
    /\ ~NoPairRemains

\* the word tuples of a table are pairwise distinct
DistinctWords(wf) == \A i, j \in DOMAIN wf : i # j => wf[i][1] # wf[j][1]

C27_Step ==
    (train.pc = "loop" /\ train'.pc = "loop" /\ train'.i = train.i + 1)
        => LET before == train.word_frequencies
               after == train'.word_frequencies
           IN  /\ Len(after) = Len(before)
               /\ SumValues(after) = SumValues(before)
               /\ DistinctWords(before) /\ DistinctWords(after)
               /\ \A k \in DOMAIN before :
                      k \in DOMAIN after
                          => /\ Join(after[k][1]) = Join(before[k][1])
                             /\ after[k][2] = before[k][2]

\* C27: every training merge step maps distinct word tuples to distinct
\* word tuples: the rebuilt word-frequency table has as many entries and the
\* same total frequency as the table before the step, and the concatenation
\* of each word's symbols is unchanged by the step.
C27_MergeStepKeepsWords == [][C27_Step]_vars

\* a merge step has shortened both words of a table of two words
C27_Witness ==
    /\ train.pc = "loop" /\ train.i >= 1
    /\ Len(train.word_frequencies) = 2
    /\ \A k \in DOMAIN train.word_frequencies :
           Len(train.word_frequencies[k][1]) < Len(pretokenize(corpus)[k][1])

(***************************************************************************)
(* Claims about one generation call, checked under SpecGen.                *)
(***************************************************************************)
Generation(t) == call[t].kind \in {"generate_story", "generate_story_streaming"}

\* the loop counter, the number of sampling steps and the length of the
\* running token sequence stay within max_length
C3_Bounded ==
    \A t \in Threads :
        Generation(t) =>
            /\ call[t].i <= call[t].max_length
            /\ call[t].samples <= call[t].max_length
            /\ Len(call[t].story_tokens) <= Len(call[t].encoded_prefix) + call[t].max_length

\* a step of a call that is in its loop either ends the call or is one
\* sampling step that advances the loop counter
C3_LoopAdvances ==
    \A t \in Threads :
        (call[t].pc = "loop" /\ call'[t] # call[t]) =>
            \/ call'[t].pc = "done"
            \/ /\ call'[t].pc \in {"loop", "yielded"}
               /\ call'[t].i = call[t].i + 1
               /\ call'[t].samples = call[t].samples + 1

\* C3: a generation call with max_length = N terminates after at most N
\* sampling steps, for every model and every sequence of draws: every
\* iteration of its loop advances a counter that never exceeds N, and its
\* running token sequence never grows beyond len(encoded prefix) + N.
C3_TerminatesWithinMaxLength == []C3_Bounded /\ [][C3_LoopAdvances]_vars

\* a call with a prefix of two words that used all of its max_length >= 2
\* sampling steps and returned
C3_Witness ==
    \E t \in Threads :
        /\ Generation(t) /\ call[t].result.kind = "return"
        /\ Len(Split(call[t].prefix)) >= 2
        /\ call[t].max_length >= 2
        /\ call[t].samples = call[t].max_length
        /\ Len(call[t].story_tokens) = Len(call[t].encoded_prefix) + call[t].max_length

CountTerminators(text) == Cardinality({i \in DOMAIN text : text[i] = FULLSTOP})

\* C7: with a model whose only token is the sentence end, generate_story
\* with a valid prefix and max_length >= 1 returns a story containing
\* exactly one sentence terminator.
C7_SingleTerminator ==
    \A t \in Threads :
        (/\ call[t].kind = "generate_story" /\ call[t].result.kind = "return"
         /\ model.vocab = <<DictGet(SPECIAL_TOKENS, EOS, UNK_ID)>>
         /\ call[t].max_length >= 1)
            => CountTerminators(call[t].result.value[1]) = 1

\* the id, int or str, of the story-end control token in the vocabulary the
\* corpus was encoded with, under either spelling
StoryEnd(token) ==
    DictGet(BackendTokenizer.vocab, ParseInt(token), UNK) \in {EOT, EOT \o WORD_END}

\* the tokens a call has drawn: its sequence after the encoded prefix
Drawn(f) == SubSeq(f.story_tokens, Len(f.encoded_prefix) + 1, Len(f.story_tokens))

\* C12: when the token drawn is the story-end control token, the call stops
\* at that step: the token is the last of the running sequence, the call has
\* ended, and no fragment was emitted for it.
C12_StopsAtStoryEnd ==
    \A t \in Threads :
        Generation(t) =>
            \A k \in DOMAIN Drawn(call[t]) :
                StoryEnd(Drawn(call[t])[k])
                    => /\ k = Len(Drawn(call[t]))
                       /\ call[t].pc = "done"
                       /\ Len(call[t].chunks) < call[t].samples

Terminal(e) == e.event \in {"done", "error"}

\* C13: the events of a /generate/stream response end with exactly one
\* terminal event, which is yielded when the streamed call ends and not
\* before: the end marker after a normal end (story end, length exhausted,
\* dead distribution), an error event after an exception; every event before
\* it is the token event of a yielded fragment, in order, so no token event
\* follows it and a stream that ended with an error holds no end marker.
C13_OneTerminalEvent ==
    \A t \in Threads :
        call[t].kind = "generate_story_streaming" =>
            LET ev == call[t].events
                n == Len(call[t].chunks)
            IN  /\ Len(ev) = n + (IF call[t].pc = "done" THEN 1 ELSE 0)
                /\ \A i \in 1..n :
                       i <= Len(ev) => ev[i] = token_event(call[t].chunks[i])
                /\ call[t].pc = "done" =>
                       /\ Len(ev) = n + 1
                       /\ Terminal(ev[n + 1])
                       /\ (call[t].result.kind = "return") = (ev[n + 1] = DoneEvent)
                       /\ (call[t].result.kind # "return") = (ev[n + 1].event = "error")

\* a stream of two token events closed by the end marker
C13_Witness ==
    \E t \in Threads :
        /\ call[t].kind = "generate_story_streaming"
        /\ call[t].pc = "done"
        /\ Len(call[t].events) = 3
        /\ call[t].events[1].event = "token" /\ call[t].events[2].event = "token"
        /\ call[t].events[3] = DoneEvent

\* a stream that consists of the error event of a rejected prefix
C13_WitnessError ==
    \E t \in Threads :
        /\ call[t].kind = "generate_story_streaming"
        /\ call[t].events = <<error_event("ValueError")>>

\* C14: encode replaces every character outside the word, whitespace and
\* angle-bracket classes with a separator before it splits on whitespace: the
\* ids a generation call gets for its prefix from tokenizer_utils.encode, and
\* the tokens Backend/bpe_tokenizer.encode returns, are those of the text
\* with its punctuation replaced by spaces.
C14_PunctuationSeparated ==
    \A t \in Threads :
        /\ (Generation(t) /\ call[t].encoded_prefix # <<>>)
               => call[t].encoded_prefix
                      = tokenizer_encode(heap[call[t].tokenizer],
                                         strip_punctuation(call[t].prefix))
        /\ (call[t].kind = "encode" /\ call[t].result.kind = "return")
               => call[t].result.value
                      = bpe_encode(bpe.merges, strip_punctuation(call[t].prefix))

\* C15: tokenizer_utils.decode of an id sequence is the trimmed concatenation
\* of tokenizer_utils.decode_token over the same ids (each id mapped to its
\* token string, the end-of-word marker, standalone or as a suffix, rendered
\* as a trailing space, story-end as the empty string, sentence-end as the
\* terminator plus a space, paragraph-end as a blank line).
C15_DecodeIsJoinedDecodeToken ==
    \A t \in Threads :
        (call[t].kind = "decode" /\ call[t].result.kind = "return")
            => call[t].result.value
                   = Strip(Join([i \in DOMAIN call[t].token_ids |->
                                    decode_token(heap[call[t].tokenizer],
                                                 call[t].token_ids[i])]))

Streaming(t) == call[t].kind = "generate_story_streaming"

\* the iterations of a streamed call that did not stop generation: all its
\* sampling steps but one that drew an end-of-story id
Continuing(f) ==
    f.samples - (IF Drawn(f) # <<>> /\ Drawn(f)[Len(Drawn(f))] \in f.eot_ids THEN 1 ELSE 0)

\* C25, as stated: in generate_story_streaming every loop iteration that
\* does not stop generation hands exactly one fragment to the consumer.
C25_EveryIterationYields ==
    \A t \in Threads : Streaming(t) => Len(call[t].chunks) = Continuing(call[t])

\* a fragment is handed over only by a sampling step, one at a time, and a
\* call that has handed over a fragment is suspended with that fragment as
\* the last event of the response
C25_Suspended ==
    \A t \in Threads :
        Streaming(t) =>
            /\ Len(call[t].chunks) <= Continuing(call[t])
            /\ call[t].pc = "yielded" =>
                   /\ call[t].chunks # <<>>
                   /\ call[t].events # <<>>
                   /\ call[t].events[Len(call[t].events)]
                          = token_event(call[t].chunks[Len(call[t].chunks)])

\* a sampling step that does not stop generation either drops its fragment
\* (empty, or a duplicate terminator) and stays in the loop, or hands the
\* fragment over and suspends; a suspended call does nothing until pulled
C25_Step ==
    \A t \in Threads :
        (Streaming(t) /\ call'[t] # call[t]) =>
            /\ (call[t].pc = "loop" /\ call'[t].pc # "done") =>
                   LET decoded == decode_token(heap[tokenizer_instance],
                                               call'[t].story_tokens[Len(call'[t].story_tokens)])
                   IN  /\ call'[t].samples = call[t].samples + 1
                       /\ IF decoded = <<>> \/ duplicate_terminator(decoded, call[t].text)
                          THEN /\ call'[t].pc = "loop"
                               /\ call'[t].chunks = call[t].chunks
                               /\ call'[t].events = call[t].events
                          ELSE /\ call'[t].pc = "yielded"
                               /\ call'[t].chunks = Append(call[t].chunks, decoded)
                               /\ call'[t].events = Append(call[t].events, token_event(decoded))
            /\ call[t].pc = "yielded" => call'[t] = [call[t] EXCEPT !.pc = "loop"]

\* C25, amended: every loop iteration of generate_story_streaming that does
\* not stop generation and whose fragment is accepted (not empty, not a
\* duplicate terminator) is a suspension point that hands exactly that one
\* fragment to the consumer before the next sampling step runs; an iteration
\* whose fragment is dropped hands nothing over and goes on to the next
\* sampling step; no sampling step is computed ahead of a fragment the
\* consumer has not yet pulled.
C25_AcceptedFragmentsSuspend == []C25_Suspended /\ [][C25_Step]_vars

\* a streamed call dropped the fragment of its first iteration and is
\* suspended with the fragment of its second
C25_Witness ==
    \E t \in Threads :
        /\ Streaming(t)
        /\ call[t].pc = "yielded"
        /\ call[t].samples = 2
        /\ Len(call[t].chunks) = 1

\* C28: encode returns at least one id for every whitespace word, whatever
\* the merge table, so a prefix that passes the check of two whitespace
\* words encodes to at least two ids: the only ValueError of a generation
\* call is the one of the raw check, and a call in its loop has a running
\* sequence of at least two tokens, whose last two are the context.
C28_EncodedPrefixLongEnough ==
    \A t \in Threads :
        Generation(t) =>
            /\ call[t].result.kind = "ValueError" => too_few_words(call[t].words)
            /\ call[t].pc \in {"loop", "yielded"} =>
                   /\ Len(call[t].encoded_prefix) >= Len(call[t].words)
                   /\ Len(call[t].words) >= 2
                   /\ Len(call[t].story_tokens) >= 2

\* a call is in its loop with a prefix of two words, one of which holds a
\* symbol outside the vocabulary
C28_Witness ==
    \E t \in Threads :
        /\ Generation(t)
        /\ call[t].pc = "loop"
        /\ Len(call[t].words) = 2
        /\ UNK_ID \in Range(call[t].encoded_prefix)

(***************************************************************************)
(* Claims about lazy loading under concurrent first use, checked under     *)
(* SpecLoad.                                                               *)
(***************************************************************************)
\* the object holds what load() reads from the artifacts on disk
TokenizerLoaded(o) ==
    /\ files.exists
    /\ o.vocab = tokenizer_load(BackendClass, files).vocab
    /\ o.token_to_id = tokenizer_load(BackendClass, files).token_to_id
    /\ o.merges = tokenizer_load(BackendClass, files).merges

\* _model is the index built from the pickles on disk
ModelBuilt == pickles.exists /\ model = build_indexes(load_ngram_counts(pickles))

\* the thread is between the test of a lazy loader and the end of its load
InLoader(t) ==
    call[t].pc \in {"load_ngram_counts", "build_indexes", "set_loaded",
                    "new_tokenizer", "artifacts_exist", "load_vocab", "load_token_to_id",
                    "clear_merges", "load_merges", "bpe_load_merges", "bpe_set_loaded"}

\* C5: once a lazy-load attempt has failed on a missing artifact and no load
\* is in progress, each module's loaded state is either unset (so that the
\* next call loads again) or set with fully loaded artifacts.
C5_FailedLoadLeavesUnset ==
    (/\ \E t \in Threads : call[t].result.kind = "FileNotFoundError"
     /\ \A t \in Threads : ~InLoader(t))
        => /\ tokenizer_instance = None \/ TokenizerLoaded(heap[tokenizer_instance])
           /\ loaded => ModelBuilt
           /\ bpe.loaded => (files.exists /\ bpe.merges = load_merges(files))

\* C8: with the artifacts in place and no load attempt failed, whenever
\* _loaded is true _model is the completely built index, and every tokenizer
\* a caller got from get_tokenizer has its vocabulary and merge table loaded.
C8_CallersSeeLoadedArtifacts ==
    (/\ files.exists /\ pickles.exists
     /\ \A t \in Threads : call[t].result.kind # "FileNotFoundError")
        => /\ loaded => ModelBuilt
           /\ \A t \in Threads :
                  call[t].tokenizer # None => TokenizerLoaded(heap[call[t].tokenizer])

\* C9: the n-gram artifacts and the tokenizer artifacts are each loaded at
\* most once per process: at most one call assigns _model and at most one
\* call assigns _tokenizer_instance.
C9_LoadedAtMostOnce ==
    /\ Cardinality({t \in Threads : call[t].built}) <= 1
    /\ Cardinality({t \in Threads : heap[t].allocated}) <= 1

\* both the model and the tokenizer the process serves from are loaded
ArtifactsLoaded ==
    /\ loaded /\ ModelBuilt
    /\ tokenizer_instance # None
    /\ TokenizerLoaded(heap[tokenizer_instance])

\* the shared model state: the index and the tokenizer calls are served from
SharedState ==
    <<model, IF tokenizer_instance = None THEN NoObject ELSE heap[tokenizer_instance]>>

\* C10: after the artifacts are loaded no step of any call, in any
\* interleaving, modifies the shared model state.
C10_SharedStateReadOnly == [][ArtifactsLoaded => SharedState' = SharedState]_vars

(***************************************************************************)
(* Claims about the two generation modes, checked under SpecPair.          *)
(***************************************************************************)
\* s is an initial segment of t
IsPrefixSeq(s, t) == Len(s) <= Len(t) /\ SubSeq(t, 1, Len(s)) = s

\* the two calls have appended the same tokens so far
SameDraws(t, u) ==
    /\ call[t].story_tokens = call[u].story_tokens
    /\ call[t].pc \in {"loop", "yielded", "done"}
    /\ call[u].pc \in {"loop", "yielded", "done"}

\* C11: for the same prefix, max_length, model and sequence of drawn tokens,
\* generate_story and generate_story_streaming accept the same fragments, the
\* fragments yielded by the streaming call, joined, with whitespace collapsed
\* and trimmed, are the story the blocking call returns, both end the same
\* way, and neither draws a token after the step at which the other stopped.
C11_BlockingEqualsStreaming ==
    \A t, u \in Threads :
        (/\ call[t].kind = "generate_story" /\ call[u].kind = "generate_story_streaming"
         /\ call[t].prefix = call[u].prefix /\ call[t].max_length = call[u].max_length)
            => /\ SameDraws(t, u) =>
                      /\ call[t].chunks = call[u].chunks
                      /\ call[t].samples = call[u].samples
               /\ (call[t].pc = "done" /\ call[u].pc = "done"
                      /\ call[t].story_tokens = call[u].story_tokens)
                      => /\ call[t].result.kind = call[u].result.kind
                         /\ call[t].result.kind = "return"
                                => call[t].result.value[1] = cleaned(call[u].chunks)
               /\ (call[t].pc = "done"
                      /\ IsPrefixSeq(call[t].story_tokens, call[u].story_tokens))
                      => call[u].story_tokens = call[t].story_tokens
               /\ (call[u].pc = "done"
                      /\ IsPrefixSeq(call[u].story_tokens, call[t].story_tokens))
                      => call[t].story_tokens = call[u].story_tokens

\* both calls drew the same two tokens and returned a non-empty story, one
\* of the draws having produced no fragment (a story end or a repeated
\* sentence terminator)
C11_Witness ==
    \E t, u \in Threads :
        /\ call[t].kind = "generate_story" /\ call[u].kind = "generate_story_streaming"
        /\ call[t].result.kind = "return" /\ call[u].result.kind = "return"
        /\ call[t].story_tokens = call[u].story_tokens
        /\ call[u].samples = 2
        /\ Len(call[u].chunks) = 1
        /\ call[t].result.value[1] # <<>>


(***************************************************************************)
(* Claims about the order of the merge table, checked under SpecEnc.       *)
(***************************************************************************)
\* the word is x y z and the table is (x,y) then (y,z), two different rules
ChainedRules ==
    LET word == call["t1"].text
        table == heap["t1"].merges
    IN  /\ Len(word) = 3 /\ Len(table) = 2
        /\ table[1] = <<<<word[1]>>, <<word[2]>>>>
        /\ table[2] = <<<<word[2]>>, <<word[3]>>>>
        /\ table[1] # table[2]

\* C19: the order of the merge table is load-bearing: on a word x y z, encode
\* with the table (x,y),(y,z) and encode with the same two rules reversed
\* return different tokenizations.
C19_MergeOrderMatters ==
    (call["t1"].pc = "done" /\ call["t2"].pc = "done" /\ ChainedRules)
        => call["t1"].token_ids # call["t2"].token_ids

\* the word abc was encoded with (a,b),(b,c) and with (b,c),(a,b)
C19_Witness ==
    /\ call["t1"].pc = "done" /\ call["t2"].pc = "done"
    /\ call["t1"].text = <<"a", "b", "c">>
    /\ heap["t1"].merges = <<<<<<"a">>, <<"b">>>>, <<<<"b">>, <<"c">>>>>>
    /\ heap["t2"].merges = <<<<<<"b">>, <<"c">>>>, <<<<"a">>, <<"b">>>>>>
    /\ Len(call["t1"].token_ids) = 3 /\ Len(call["t2"].token_ids) = 3


(***************************************************************************)
(* Claims about how a generation ends, checked under SpecStop.             *)
(***************************************************************************)
\* the condition that ended the loop of a call that returned: the break on
\* an end-of-story id, the exhausted range, or the break on sum(probs) == 0
StopReason(f) ==
    IF Drawn(f) # <<>> /\ Drawn(f)[Len(Drawn(f))] \in f.eot_ids THEN "STOPPED_BY_TOKEN"
    ELSE IF ~range_has_next(f.i, f.max_length) THEN "STOPPED_BY_LENGTH"
    ELSE "STOPPED_BY_DEAD_DISTRIBUTION"

\* all that a call leaves behind when it has returned: the value handed to
\* the caller and the events of the response
Outcome(f) == <<f.result, f.events>>

\* C21: when a generation call has returned, which of the three stop
\* conditions ended its loop is observable: two calls of the same function
\* with the same prefix and max_length on the same model that leave the same
\* outcome stopped for the same reason.
C21_StopReasonObservable ==
    \A t, u \in Threads :
        (/\ Generation(t) /\ Generation(u)
         /\ call[t].pc = "done" /\ call[u].pc = "done"
         /\ call[t].result.kind = "return" /\ call[u].result.kind = "return"
         /\ call[t].kind = call[u].kind /\ call[t].prefix = call[u].prefix
         /\ call[t].max_length = call[u].max_length
         /\ Outcome(call[t]) = Outcome(call[u]))
            => StopReason(call[t]) = StopReason(call[u])


(***************************************************************************)
(* Claims about the distribution a generation call samples from, checked   *)
(* under SpecGen.                                                          *)
(***************************************************************************)
\* C29: with count tables built from a non-empty token stream, every entry
\* of the distribution _next_token_probs returns for the context of a
\* generation call is strictly positive, whether the context was seen or
\* not, so the call never stops on a dead distribution and every token it
\* draws belongs to the n-gram vocabulary.
C29_NoDeadDistribution ==
    \A t \in Threads :
        (Generation(t) /\ stream # <<>>) =>
            /\ call[t].pc \in {"loop", "yielded"} =>
                   /\ call[t].vocab # <<>>
                   /\ Len(Probs(call[t])) = Len(call[t].vocab)
                   /\ \A i \in DOMAIN Probs(call[t]) :
                          Probs(call[t])[i][1] > 0 /\ Probs(call[t])[i][2] > 0
                   /\ RatSum(Probs(call[t])) # RatZero
            /\ Range(Drawn(call[t])) \subseteq Range(model.vocab)
            /\ (call[t].pc = "done" /\ call[t].result.kind = "return")
                   => StopReason(call[t]) # "STOPPED_BY_DEAD_DISTRIBUTION"

\* a call has drawn a token and is in its loop with a context that holds the
\* unknown id, for which only the unigram floor is left
C29_Witness ==
    \E t \in Threads :
        /\ Generation(t) /\ stream # <<>>
        /\ call[t].pc = "loop"
        /\ UNK_ID \in Range(call[t].encoded_prefix)
        /\ call[t].samples >= 1
        /\ Probs(call[t]) = model.base_probs

\* a call is in its loop with a context whose successors were counted
C29_WitnessSeen ==
    \E t \in Threads :
        /\ Generation(t) /\ stream # <<>>
        /\ call[t].pc = "loop"
        /\ DictHas(model.bigram_next, call[t].story_tokens[Len(call[t].story_tokens)])

\* story_tokens[-1]
Last(s) == s[Len(s)]

\* C30: a sampling step whose fragment is suppressed as a duplicate sentence
\* terminator still appends the drawn token to the running sequence, so the
\* token is the last of the two-token context of the next step, and still
\* uses one of the max_length iterations; only the emitted text, the
\* fragments and the events stay as they were.  Hence the emitted fragments
\* are never more than the sampling steps.
C30_Count ==
    \A t \in Threads :
        Generation(t) =>
            /\ Len(call[t].chunks) <= call[t].samples
            /\ call[t].samples = Len(Drawn(call[t]))
            /\ call[t].pc \in {"loop", "yielded"} =>
                   call[t].i = call[t].samples /\ call[t].i <= call[t].max_length

C30_Step ==
    \A t \in Threads :
        (/\ Generation(t)
         /\ call[t].pc = "loop"
         /\ call'[t] # call[t]
         /\ call'[t].result.kind = NoResult.kind
         /\ LET decoded == decode_token(heap[tokenizer_instance],
                                        Last(call'[t].story_tokens))
            IN  /\ Last(call'[t].story_tokens) \notin call[t].eot_ids
                /\ duplicate_terminator(decoded, call[t].text))
        => /\ Len(call'[t].story_tokens) = Len(call[t].story_tokens) + 1
           /\ SubSeq(call'[t].story_tokens, 1, Len(call[t].story_tokens))
                 = call[t].story_tokens
           /\ call'[t].samples = call[t].samples + 1
           /\ call'[t].i = call[t].i + 1
           /\ call'[t].pc = "loop"
           /\ call'[t].chunks = call[t].chunks
           /\ call'[t].text = call[t].text
           /\ call'[t].events = call[t].events
           /\ Probs(call[t])' = next_token_probs(model, Last(call[t].story_tokens),
                                                 Last(call'[t].story_tokens))

C30_SuppressedTokenStillCounts == []C30_Count /\ [][C30_Step]_vars

\* the only draw of a call so far decoded to a sentence terminator after a
\* text that ends with one: nothing was emitted, the token is in the
\* sequence and one iteration is used
C30_Witness ==
    \E t \in Threads :
        /\ Generation(t)
        /\ call[t].pc = "loop"
        /\ call[t].samples = 1 /\ call[t].i = 1
        /\ call[t].chunks = <<>>
        /\ Last(call[t].story_tokens) \notin call[t].eot_ids
        /\ duplicate_terminator(decode_token(heap[tokenizer_instance],
                                             Last(call[t].story_tokens)),
                                call[t].text)

\* the same in a streaming call
C30_WitnessStreaming ==
    \E t \in Threads :
        /\ call[t].kind = "generate_story_streaming"
        /\ call[t].pc = "loop"
        /\ call[t].samples = 1
        /\ call[t].chunks = <<>>
        /\ Last(call[t].story_tokens) \notin call[t].eot_ids
        /\ duplicate_terminator(decode_token(heap[tokenizer_instance],
                                             Last(call[t].story_tokens)),
                                call[t].text)

=============================================================================
